---- MODULE Spec2Model ----
(***************************************************************************)
(* Cooldown and buffering state machine of the smart-notifier plugin       *)
(* (smart-notifier/src/main.ts, the ListenerMixin that keeps its state in  *)
(* the module-level maps globalCooldowns, globalPendingNotifications,      *)
(* globalProcessing and globalFaceCooldowns).                              *)
(*                                                                         *)
(* JavaScript runs one task at a time: a detection handler runs without    *)
(* interruption between two awaits.  The variable `running` names the      *)
(* handler that is inside such a synchronous stretch; every other task     *)
(* (another handler, a timer, an interval, release, the clock) waits until *)
(* it is None again.  The awaits of the source are the positions "reid"    *)
(* and "sending".                                                          *)
(***************************************************************************)
EXTENDS Integers, Sequences, FiniteSets, TLC

(* ---------------- bounds of the model ---------------- *)
MaxTicks == 1

(* ---------------- program constants ---------------- *)
PERSON_COOLDOWN_MS == 300000
BUFFER_DELAY_MS == 10000
COOLDOWN_RETENTION_MS == 3600000
PENDING_LIMIT == 100

\* src/reid-service/deploy.sh:89  trackingWindowMs = 60000
DEFAULT_WINDOW_MS == 60000
\* src/reid-service/src_typescript_backup/main.ts:15
TRACKING_WINDOW_DEFAULT == 60

(* ---------------- input domains ---------------- *)
Cameras == {"camA", "camB"}
Handlers == {"h1", "h2"}
\* the mixin whose listener callback a handler is an invocation of
CameraOf(h) == IF h = "h1" THEN "camA" ELSE "camB"
PersonIds == {"p1", "p2"}
NoId == "noid"
NoLabel == "nolabel"
Names == {"Alice", "Person"}
RawLabels == Names \cup {NoLabel, "person", "face"}
None == "none"

\* the entries of parsed.detections a ReID response can carry
Dets ==
    [cls : {"person"}, pid : PersonIds, label : RawLabels]
      \cup {[cls |-> "face", pid |-> "p1", label |-> "Alice"],
            [cls |-> "person", pid |-> NoId, label |-> NoLabel]}

\* clock advances between tasks
TickSteps == {BUFFER_DELAY_MS, PERSON_COOLDOWN_MS}

VARIABLES
    now,                        \* Date.now()
    ticks,                      \* number of clock advances so far
    globalCooldowns,            \* Map personId -> [timestamp, label]
    globalPendingNotifications, \* Map personId -> timer, in insertion order
    globalProcessing,           \* Set of personId
    globalFaceCooldowns,        \* Map label -> timestamp
    timers,                     \* live setTimeout handles
    instanceCount,
    globalCleanupInterval,      \* TRUE when the interval is set
    statsInterval,              \* TRUE when the interval that runs logStats is set
    listener,                   \* camera -> TRUE when its mixin listens
    pc, cur,                    \* per handler: position, current detection
    running,                    \* handler inside a synchronous stretch, or None
    last                        \* the decision taken by the step just made

vars == <<now, ticks, globalCooldowns, globalPendingNotifications, globalProcessing,
          globalFaceCooldowns, timers, instanceCount, globalCleanupInterval, statsInterval,
          listener,
          pc, cur, running, last>>

\* The listener of the plugin that asks the ReID Service device (src/src/main.ts),
\* one handler per camera, with what it sent for the event it handled last
VARIABLES
    oldPc,                      \* "idle" | "snapshot" | "convert" | "persons" | "fallback"
    reidOutcome,                \* how the ReID stage of the event ended
    parsedPersons,                    \* parsed.persons still to visit, as their isNew flags
    personNotifications,        \* sendPersonNotification calls made for the event
    fallbackNotifications       \* sendFallbackNotification calls made for the event

fallbackVars == <<oldPc, reidOutcome, parsedPersons, personNotifications, fallbackNotifications>>

\* The ReID engine shared by the camera mixins of the ReID plugin
\* (src/reid-service/deploy.sh:86-351, src/reid-service/src_typescript_backup/main.ts)
VARIABLES
    clock,                      \* Date.now() as the engine reads it
    reidTicks,                  \* how often the clock has advanced
    session,                    \* ReIDEngine.session is set (initialize succeeded)
    trackedPersons,             \* the LRUCache, least recently used entry first
    trackingWindowMs,           \* ReIDEngine.trackingWindowMs
    nextId,                     \* one more than the personIds generatePersonId gave out
    mixin,                      \* camera -> a SmartNotifierMixin exists for it
    mpc,                        \* camera -> where its processDetection stands
    answer,                     \* what the processDetection that just ended returned
    issued                      \* the identity handed out as new most recently

reidVars == <<clock, reidTicks, session, trackedPersons, trackingWindowMs, nextId,
              mixin, mpc, answer, issued>>

\* The first synchronous stretch of the detection callback of each camera
\* mixin (src/smart-notifier/src/main.ts:662-724): the detectionId guard, the
\* throttle, the score filter and the detection counters
VARIABLES
    entryNow,                   \* Date.now() as the callback reads it
    entryTicks,                 \* how often that clock has advanced
    detectionLastProcessed,     \* camera -> Map detectionId -> timestamp
    personDetections,           \* globalStats.personDetections
    faceDetections,             \* globalStats.faceDetections
    entry                       \* how the callback just run dealt with its event

entryVars == <<entryNow, entryTicks, detectionLastProcessed, personDetections,
               faceDetections, entry>>

\* The detection listener of one SmartNotifierMixin of the ReID plugin
\* (src/reid-service/src_typescript_backup/main.ts:83-128, 306-325)
VARIABLES
    mixinState,                 \* "none" | "live" | "released"
    enabled,                    \* this.enabled
    mixinListener,              \* this.listener: a registration, or NoListener
    deviceListeners,            \* the registrations the camera device holds
    listening,                  \* the device.listen calls that have not settled
    removing,                   \* the removeListener calls that have not settled
    listens                     \* how many device.listen calls were made

listenVars == <<mixinState, enabled, mixinListener, deviceListeners, listening,
                removing, listens>>

\* The notification counters of globalStats (src/smart-notifier/src/main.ts:506-508,
\* 536-538) and the calls of sendNotification they are meant to count
VARIABLES
    genericNotificationsSent,
    namedNotificationsSent,
    upgradeNotificationsSent,
    dispatched                  \* calls of this.sendNotification made so far

statsVars == <<genericNotificationsSent, namedNotificationsSent,
               upgradeNotificationsSent, dispatched>>

(* ---------------- Map helpers ---------------- *)
EmptyMap == [k \in {} |-> 0]
Has(m, k) == k \in DOMAIN m
MapSet(m, k, v) == [x \in DOMAIN m \cup {k} |-> IF x = k THEN v ELSE m[x]]
MapDelete(m, k) == [x \in DOMAIN m \ {k} |-> m[x]]

\* variant: delete() leaves the entry in the map
SeqKept(s, id) == s

\* an insertion-ordered Map as a sequence of [id, timer] entries
SeqRemove(s, id) == SelectSeq(s, LAMBDA e : e.id # id)
PendingIds(s) == {s[i].id : i \in 1..Len(s)}
PendingHas(s, id) == id \in PendingIds(s)
PendingGet(s, id) == s[CHOOSE i \in 1..Len(s) : s[i].id = id]
PendingSet(s, id, t) ==
    IF PendingHas(s, id)
    THEN [i \in 1..Len(s) |-> IF s[i].id = id THEN [id |-> id, timer |-> t] ELSE s[i]]
    ELSE Append(s, [id |-> id, timer |-> t])
PendingTimers(s) == {s[i].timer : i \in 1..Len(s)}

NoDet == [pid |-> NoId, label |-> NoLabel]
NoDecision == [kind |-> None]
NoEntry == [kind |-> None]

\* no cache key, and no answer of the engine
NoKey == <<"none", "none", 0>>
NoAnswer == [kind |-> None]

\* this.listener is undefined; the registrations of a mixin are numbered from 1
NoListener == 0

(* ---------------- helpers translated from the handler ---------------- *)

\* main.ts:855  det.label unless it is missing or one of the class names
CurrentLabel(raw) == IF raw \in {NoLabel, "person", "face"} THEN NoLabel ELSE raw

\* main.ts:869  lastFaceNotification && (now - lastFaceNotification < PERSON_COOLDOWN_MS)
FaceCooldownActive(label) ==
    /\ Has(globalFaceCooldowns, label)
    /\ now - globalFaceCooldowns[label] < PERSON_COOLDOWN_MS

\* variant: cooldown records kept per mixin instance, so that the mixin of
\* camB does not see what the mixin of camA wrote
LastSeenPerInstance(c, personId) == IF c = "camA" THEN globalCooldowns ELSE EmptyMap

\* main.ts:877  the record the mixin of camera c reads for personId
LastSeen(c, personId) == globalCooldowns

\* main.ts:880-882, 953, 973  lastSeen && (now - lastSeen.timestamp < PERSON_COOLDOWN_MS)
CooldownActive(m, personId) ==
    /\ Has(m, personId)
    /\ now - m[personId].timestamp < PERSON_COOLDOWN_MS

\* variant: inside the window only a change between two names passes
PassesCooldownNoUpgrade(m, personId, label) ==
    \/ ~CooldownActive(m, personId)
    \/ /\ label # NoLabel
       /\ m[personId].label # NoLabel
       /\ m[personId].label # label

\* variant: inside the window every labeled detection passes
PassesCooldownAnyLabel(m, personId, label) ==
    \/ ~CooldownActive(m, personId)
    \/ label # NoLabel

\* main.ts:886-890  inside the window only an upgrade or a label change passes
PassesCooldown(m, personId, label) ==
    \/ ~CooldownActive(m, personId)
    \/ /\ label # NoLabel
       /\ \/ m[personId].label = NoLabel
          \/ m[personId].label # label

\* variant: the generic branch does not look for a pending buffer
VerdictNoPendingCheck(c, personId, label) ==
    IF label # NoLabel /\ FaceCooldownActive(label) THEN "face"
    ELSE IF ~PassesCooldown(LastSeen(c, personId), personId, label) THEN "cooldown"
    ELSE IF label # NoLabel THEN "named"
    ELSE IF CooldownActive(LastSeen(c, personId), personId) THEN "cooldown"
    ELSE "buffer"

\* main.ts:866-907, 946-956  the suppression checks of one detection, in the
\* order of the source; the lock check of line 846 comes before them
Verdict(c, personId, label) ==
    IF label # NoLabel /\ FaceCooldownActive(label) THEN "face"
    ELSE IF ~PassesCooldown(LastSeen(c, personId), personId, label) THEN "cooldown"
    ELSE IF label # NoLabel THEN "named"
    ELSE IF PendingHas(globalPendingNotifications, personId) THEN "pending"
    ELSE IF CooldownActive(LastSeen(c, personId), personId) THEN "cooldown"
    ELSE "buffer"

\* what a step decided, with what it found: whether a buffer was pending for
\* the personId and the label of its cooldown record in force (None: no record
\* in force)
Decision(kind, c, personId, label) ==
    [kind |-> kind, cam |-> c, pid |-> personId, label |-> label,
     buffer |-> PendingHas(globalPendingNotifications, personId),
     prior |-> IF CooldownActive(globalCooldowns, personId)
               THEN globalCooldowns[personId].label ELSE None]

\* variant: the handler also yields between its checks and its writes
AwaitPointsWithYield == {"reid", "sending", "checked"}

\* positions at which a handler is suspended in an await
AwaitPoints == {"reid", "sending"}

\* who holds the thread after handler h moved to position p
Holder(h, p) == IF p \in AwaitPoints \cup {"idle"} THEN None ELSE h

CanRun(h) == running \in {None, h}

(* ---------------- initial state: the module just loaded ---------------- *)
Init ==
    /\ now = 1
    /\ ticks = 0
    /\ globalCooldowns = EmptyMap
    /\ globalPendingNotifications = <<>>
    /\ globalProcessing = {}
    /\ globalFaceCooldowns = EmptyMap
    /\ timers = {}
    /\ instanceCount = 0
    /\ globalCleanupInterval = FALSE
    /\ statsInterval = FALSE
    /\ listener = [c \in Cameras |-> FALSE]
    /\ pc = [h \in Handlers |-> "idle"]
    /\ cur = [h \in Handlers |-> NoDet]
    /\ running = None
    /\ last = NoDecision
    /\ oldPc = [c \in Cameras |-> "idle"]
    /\ reidOutcome = [c \in Cameras |-> None]
    /\ parsedPersons = [c \in Cameras |-> <<>>]
    /\ personNotifications = [c \in Cameras |-> 0]
    /\ fallbackNotifications = [c \in Cameras |-> 0]
    /\ clock = 1
    /\ reidTicks = 0
    /\ session = FALSE
    /\ trackedPersons = <<>>
    /\ trackingWindowMs = DEFAULT_WINDOW_MS
    /\ nextId = 1
    /\ mixin = [c \in Cameras |-> FALSE]
    /\ mpc = [c \in Cameras |-> "idle"]
    /\ answer = NoAnswer
    /\ issued = [pid |-> NoKey]
    /\ entryNow = 1
    /\ entryTicks = 0
    /\ detectionLastProcessed = [c \in Cameras |-> EmptyMap]
    /\ personDetections = 0
    /\ faceDetections = 0
    /\ entry = NoEntry
    /\ mixinState = "none"
    /\ enabled = FALSE
    /\ mixinListener = NoListener
    /\ deviceListeners = {}
    /\ listening = {}
    /\ removing = {}
    /\ listens = 0
    /\ genericNotificationsSent = 0
    /\ namedNotificationsSent = 0
    /\ upgradeNotificationsSent = 0
    /\ dispatched = 0

globalState == <<globalCooldowns, globalPendingNotifications, globalProcessing,
                 globalFaceCooldowns, timers>>
lifecycle == <<instanceCount, globalCleanupInterval, statsInterval, listener>>

(* ---------------- the clock ---------------- *)
Tick(d) ==
    /\ running = None
    /\ ticks < MaxTicks
    /\ now' = now + d
    /\ ticks' = ticks + 1
    /\ last' = NoDecision
    /\ UNCHANGED <<globalState, lifecycle, pc, cur,
                   running>>

(* ---------------- constructor, main.ts:618-676 ---------------- *)
Construct(c) ==
    /\ running = None
    /\ ~listener[c]
    /\ instanceCount' = instanceCount + 1
    /\ globalCleanupInterval' = TRUE
    /\ statsInterval' = TRUE
    /\ listener' = [listener EXCEPT ![c] = TRUE]
    /\ last' = NoDecision
    /\ UNCHANGED <<now, ticks, globalState, pc, cur, running>>

(* ---------------- release(), main.ts:1055-1089 ---------------- *)
\* variant: every release tears the shared state down
EveryReleaseIsLast == TRUE

\* main.ts:1066-1069  instanceCount--; if (instanceCount === 0)
LastInstanceReleased == instanceCount - 1 = 0

Release(c) ==
    /\ running = None
    /\ listener[c]
    /\ listener' = [listener EXCEPT ![c] = FALSE]
    /\ instanceCount' = instanceCount - 1
    /\ IF LastInstanceReleased
       THEN /\ globalCleanupInterval' = FALSE
            /\ statsInterval' = FALSE
            /\ timers' = timers \ PendingTimers(globalPendingNotifications)
            /\ globalPendingNotifications' = <<>>
            /\ globalCooldowns' = EmptyMap
            /\ globalProcessing' = {}
            /\ globalFaceCooldowns' = EmptyMap
       ELSE UNCHANGED <<globalCleanupInterval, statsInterval, globalState>>
    /\ last' = NoDecision
    /\ UNCHANGED <<now, ticks, pc, cur, running>>

(* ---------------- globalCleanupInterval callback, main.ts:633-658 ---------------- *)
\* variant: the map is cleared when it is too large
DropAllPending(s) == IF Len(s) > PENDING_LIMIT THEN <<>> ELSE s

\* variant: the entries inserted last are the ones deleted
TrimPendingNewest(s) == IF Len(s) > PENDING_LIMIT THEN SubSeq(s, 1, PENDING_LIMIT) ELSE s

\* main.ts:650-657  the loop walks the map in insertion order and deletes
\* the entry it stands on while the map holds more than the limit
RECURSIVE TrimPending(_)
TrimPending(s) == IF Len(s) > PENDING_LIMIT THEN TrimPending(Tail(s)) ELSE s

\* variant: the comparison of the age is the other way round
SweepCooldownsYoung(m) ==
    [k \in {x \in DOMAIN m : now - m[x].timestamp > COOLDOWN_RETENTION_MS} |-> m[k]]

\* main.ts:636-641  records older than the retention are deleted
SweepCooldowns(m) ==
    [k \in {x \in DOMAIN m : ~(now - m[x].timestamp > COOLDOWN_RETENTION_MS)} |-> m[k]]

\* main.ts:643-648  face cooldowns older than the retention are deleted
SweepFaceCooldowns(m) ==
    [k \in {x \in DOMAIN m : ~(now - m[x] > COOLDOWN_RETENTION_MS)} |-> m[k]]

GlobalSweep ==
    /\ running = None
    /\ globalCleanupInterval
    /\ globalCooldowns' = SweepCooldowns(globalCooldowns)
    /\ globalFaceCooldowns' = SweepFaceCooldowns(globalFaceCooldowns)
    /\ globalPendingNotifications' = TrimPending(globalPendingNotifications)
    /\ timers' = timers \ (PendingTimers(globalPendingNotifications)
                             \ PendingTimers(TrimPending(globalPendingNotifications)))
    /\ last' = NoDecision
    /\ UNCHANGED <<now, ticks, globalProcessing, lifecycle, pc,
                   cur, running>>

(* ---------------- detection handler, main.ts:678-1005 ---------------- *)

\* main.ts:835, 999  after one entry of parsed.detections is done the loop goes
\* on with the next entry, or the handler returns when there is none.  The
\* entries are read one at a time, so the list is drawn entry by entry.
Advance(h) ==
    \E more \in BOOLEAN :
        /\ pc' = [pc EXCEPT ![h] = IF more THEN "loop" ELSE "idle"]
        /\ cur' = [cur EXCEPT ![h] = NoDet]
        /\ running' = Holder(h, IF more THEN "loop" ELSE "idle")

\* main.ts:678-724  the listener callback up to its first await, for an event
\* that is not throttled: without a detectionId or without a person or face
\* above the score threshold it returns at once
Event(h) ==
    /\ running = None
    /\ listener[CameraOf(h)]
    /\ pc[h] = "idle"
    /\ \E detectionId \in BOOLEAN, persons \in BOOLEAN :
         IF detectionId /\ persons
         THEN pc' = [pc EXCEPT ![h] = "reid"]
         ELSE UNCHANGED pc
    /\ last' = NoDecision
    /\ UNCHANGED <<now, ticks, globalState, lifecycle, cur, running>>

\* variant: the failure path drops every lock
LocksDroppedOnFailure == {}

\* main.ts:741-744, 1001-1004  the early return and the catch block only log
\* and count; the lock set is left as it is
LocksAfterReidFail == globalProcessing

\* main.ts:729-743, 823-825, 1001-1004  no snapshot, or the ReID call throws
ReidFail(h) ==
    /\ running = None
    /\ pc[h] = "reid"
    /\ pc' = [pc EXCEPT ![h] = "idle"]
    /\ last' = [kind |-> "reid_failed", cam |-> CameraOf(h)]
    /\ globalProcessing' = LocksAfterReidFail
    /\ UNCHANGED <<now, ticks, globalCooldowns, globalPendingNotifications,
                   globalFaceCooldowns, timers, lifecycle, cur, running>>

\* main.ts:827-835  the response arrives; parsed.detections is empty (or
\* missing) or the loop over it starts
ReidResponse(h) ==
    /\ running = None
    /\ pc[h] = "reid"
    /\ \E empty \in BOOLEAN :
         /\ pc' = [pc EXCEPT ![h] = IF empty THEN "idle" ELSE "loop"]
         /\ running' = Holder(h, IF empty THEN "idle" ELSE "loop")
    /\ last' = NoDecision
    /\ UNCHANGED <<now, ticks, globalState, lifecycle, cur>>

\* variant: the continue of the lock check runs the finally block as well
LocksReleasedOnSkip(personId) == globalProcessing \ {personId}

\* main.ts:846-850  the lock check lies before the try: its continue leaves
\* the lock set as it is
LocksAfterSkip(personId) == globalProcessing

\* variant: every frame that is checked restarts the clock of the pending buffers
PendingRestartedOnCheck ==
    [i \in 1..Len(globalPendingNotifications) |->
        [globalPendingNotifications[i] EXCEPT !.timer.at = now]]

\* main.ts:846-956  none of the checks writes the pending map; a frame dropped
\* because a buffer is pending leaves the entry with its timer and image
PendingAfterCheck == globalPendingNotifications

\* main.ts:835-907, 946-956  one entry of parsed.detections: the lock and the
\* suppression checks.  A suppressed entry ends here (continue; the finally
\* block removes the lock it added); a passing one holds the lock and goes on
\* to Mark without leaving the thread.
Check(h) ==
    /\ CanRun(h)
    /\ pc[h] = "loop"
    /\ \E det \in Dets :
         LET personId == det.pid
             label == CurrentLabel(det.label)
             c == CameraOf(h)
         IN IF det.cls # "person" \/ personId = NoId
            THEN /\ last' = Decision("skip", c, personId, label)
                 /\ Advance(h)
                 /\ UNCHANGED globalProcessing
            ELSE IF personId \in globalProcessing
            THEN /\ last' = Decision("lock", c, personId, label)
                 /\ Advance(h)
                 /\ globalProcessing' = LocksAfterSkip(personId)
            ELSE IF Verdict(c, personId, label) \in {"named", "buffer"}
            THEN /\ last' = Decision(Verdict(c, personId, label), c, personId, label)
                 /\ globalProcessing' = globalProcessing \cup {personId}
                 /\ pc' = [pc EXCEPT ![h] = "checked"]
                 /\ cur' = [cur EXCEPT ![h] = [pid |-> personId, label |-> label]]
                 /\ running' = Holder(h, "checked")
            ELSE /\ last' = Decision(Verdict(c, personId, label), c, personId, label)
                 /\ Advance(h)
                 /\ UNCHANGED globalProcessing
    /\ globalPendingNotifications' = PendingAfterCheck
    /\ UNCHANGED <<now, ticks, globalCooldowns,
                   globalFaceCooldowns, timers, lifecycle>>

\* main.ts:1016-1025  sendNotification up to its first await, called with
\* skipCooldownUpdate = true: the face cooldown of a name other than 'Person'
FaceCooldownsAfterSend(name) ==
    IF name # "Person" THEN MapSet(globalFaceCooldowns, name, now) ELSE globalFaceCooldowns

\* variant: the entry is deleted but its timer is left running
TimersLeftRunning(personId) == timers

\* variant: the timer is cleared but the entry stays in the map
PendingLeftInMap(personId) == globalPendingNotifications

\* main.ts:914  globalPendingNotifications.delete(personId)
PendingAfterCancel(personId) == SeqRemove(globalPendingNotifications, personId)

\* main.ts:911-914  clearTimeout(pending.timer) when a buffer is pending
TimersAfterCancel(personId) ==
    IF PendingHas(globalPendingNotifications, personId)
    THEN timers \ {PendingGet(globalPendingNotifications, personId).timer}
    ELSE timers

\* main.ts:909-943  named branch: cancel the buffer, re-check, write, send
MarkNamed(h) ==
    LET personId == cur[h].pid
        label == cur[h].label
        fresh == LastSeen(CameraOf(h), personId)
    IN /\ timers' = TimersAfterCancel(personId)
       /\ globalPendingNotifications' = PendingAfterCancel(personId)
       /\ IF CooldownActive(fresh, personId) /\ fresh[personId].label = label
          THEN /\ last' = Decision("dup", CameraOf(h), personId, label)
               /\ globalProcessing' = globalProcessing \ {personId}
               /\ Advance(h)
               /\ UNCHANGED <<globalCooldowns, globalFaceCooldowns>>
          ELSE /\ last' = Decision("sent_named", CameraOf(h), personId, label)
               /\ globalCooldowns' =
                    MapSet(globalCooldowns, personId, [timestamp |-> now, label |-> label])
               /\ globalFaceCooldowns' = FaceCooldownsAfterSend(label)
               /\ pc' = [pc EXCEPT ![h] = "sending"]
               /\ running' = Holder(h, "sending")
               /\ UNCHANGED <<globalProcessing, cur>>

\* main.ts:967  setTimeout returns a handle no live timer has
NewTimer(personId) ==
    [pid |-> personId, at |-> now,
     n |-> Cardinality({t \in timers : t.pid = personId /\ t.at = now})]

\* main.ts:958-997  generic branch: start the buffer timer, store the entry, unlock
MarkGeneric(h) ==
    LET personId == cur[h].pid
        timer == NewTimer(personId)
    IN /\ timers' = timers \cup {timer}
       /\ globalPendingNotifications' = PendingSet(globalPendingNotifications, personId, timer)
       /\ globalProcessing' = globalProcessing \ {personId}
       /\ last' = Decision("buffered", CameraOf(h), personId, NoLabel)
       /\ Advance(h)
       /\ UNCHANGED <<globalCooldowns, globalFaceCooldowns>>

Mark(h) ==
    /\ CanRun(h)
    /\ pc[h] = "checked"
    /\ IF cur[h].label # NoLabel THEN MarkNamed(h) ELSE MarkGeneric(h)
    /\ UNCHANGED <<now, ticks, lifecycle>>

\* variant: the named branch has no finally
ResumeKeepingLock(h) ==
    /\ UNCHANGED globalProcessing
    /\ Advance(h)

\* main.ts:943, 996-998  the awaited sendNotification has settled: finally, next entry
Resume(h) ==
    /\ globalProcessing' = globalProcessing \ {cur[h].pid}
    /\ Advance(h)

\* variant: a failed delivery takes the cooldown record of its decision back
CooldownsRolledBack(personId, delivered) ==
    IF delivered THEN globalCooldowns ELSE MapDelete(globalCooldowns, personId)

\* main.ts:1027-1044  the try around the delivery: its catch and its missing
\* notifier branch only report, the cooldown records are not touched
CooldownsAfterSettle(personId, delivered) == globalCooldowns

\* main.ts:1028-1044  the awaited sendNotification settles, delivered or not
\* (crop or createMediaObject throws, the notifier is missing or throws)
SendSettled(h) ==
    /\ running = None
    /\ pc[h] = "sending"
    /\ \E delivered \in BOOLEAN :
         /\ globalCooldowns' = CooldownsAfterSettle(cur[h].pid, delivered)
         /\ last' = [kind |-> IF delivered THEN "delivered" ELSE "failed",
                     pid |-> cur[h].pid, label |-> cur[h].label]
         /\ Resume(h)
    /\ UNCHANGED <<now, ticks, globalPendingNotifications,
                   globalFaceCooldowns, timers, lifecycle>>

(* ---------------- buffer timer callback, main.ts:967-991 ---------------- *)
TimerFire(t, c) ==
    /\ running = None
    /\ t \in timers
    /\ now - t.at >= BUFFER_DELAY_MS
    /\ timers' = timers \ {t}
    /\ globalPendingNotifications' = SeqRemove(globalPendingNotifications, t.pid)
    /\ IF CooldownActive(LastSeen(c, t.pid), t.pid)
       THEN /\ last' = Decision("timer_skip", c, t.pid, NoLabel)
            /\ UNCHANGED <<globalCooldowns, globalFaceCooldowns>>
       ELSE /\ last' = Decision("sent_generic", c, t.pid, NoLabel)
            /\ globalCooldowns' =
                 MapSet(globalCooldowns, t.pid, [timestamp |-> now, label |-> NoLabel])
            /\ globalFaceCooldowns' = FaceCooldownsAfterSend("Person")
    /\ UNCHANGED <<now, ticks, globalProcessing, lifecycle, pc,
                   cur, running>>

\* what no step of the notifier touches
elsewhere == <<fallbackVars, reidVars, entryVars, listenVars, statsVars>>

Next ==
    \/ \E d \in TickSteps : Tick(d) /\ UNCHANGED elsewhere
    \/ \E c \in Cameras : Construct(c) /\ UNCHANGED elsewhere
    \/ \E c \in Cameras : Release(c) /\ UNCHANGED elsewhere
    \/ GlobalSweep /\ UNCHANGED elsewhere
    \/ \E h \in Handlers : Event(h) /\ UNCHANGED elsewhere
    \/ \E h \in Handlers : ReidFail(h) /\ UNCHANGED elsewhere
    \/ \E h \in Handlers : ReidResponse(h) /\ UNCHANGED elsewhere
    \/ \E h \in Handlers : Check(h) /\ UNCHANGED elsewhere
    \/ \E h \in Handlers : Mark(h) /\ UNCHANGED elsewhere
    \/ \E h \in Handlers : SendSettled(h) /\ UNCHANGED elsewhere
    \/ \E t \in timers, c \in Cameras : TimerFire(t, c) /\ UNCHANGED elsewhere

Spec == Init /\ [][Next]_vars

\* main.ts:835-999  a step of handler h that gives the thread back: the loop
\* over parsed.detections is finite, so the handler reaches an await or its end
Yields(h) == running = h /\ running' = None /\ (Check(h) \/ Mark(h))

\* main.ts:943, 1028-1044  the event loop resumes a handler whose awaited
\* delivery has settled once the thread is free
Fairness ==
    \A h \in Handlers :
        /\ WF_vars(Yields(h) /\ UNCHANGED elsewhere)
        /\ SF_vars(SendSettled(h) /\ UNCHANGED elsewhere)

FairSpec == Spec /\ Fairness

\* the steps that read or write the lock set, with the clock standing still:
\* the clock, the sweep and the timer callbacks never touch globalProcessing
LockNext ==
    \/ \E c \in Cameras : Construct(c) /\ UNCHANGED elsewhere
    \/ \E c \in Cameras : Release(c) /\ UNCHANGED elsewhere
    \/ \E h \in Handlers : Event(h) /\ UNCHANGED elsewhere
    \/ \E h \in Handlers : ReidFail(h) /\ UNCHANGED elsewhere
    \/ \E h \in Handlers : ReidResponse(h) /\ UNCHANGED elsewhere
    \/ \E h \in Handlers : Check(h) /\ UNCHANGED elsewhere
    \/ \E h \in Handlers : Mark(h) /\ UNCHANGED elsewhere
    \/ \E h \in Handlers : SendSettled(h) /\ UNCHANGED elsewhere

LockSpec == Init /\ [][LockNext]_vars /\ Fairness

(* ---------------- the listener that calls the ReID Service device ---------------- *)

\* the longest parsed.persons array the ReID result carries
MaxPersons == 2

PersonLists == UNION {[1..n -> BOOLEAN] : n \in 0..MaxPersons}

\* src/src/main.ts:155-176  what reid.convert and the parsing of its result can give
ConvertOutcomes == {"throws", "unparsable", "invalid", "not_processed", "processed"}

\* src/src/main.ts:60-119  a person event arrives with the ReID Service present;
\* the handler suspends in getRecordingStreamThumbnail
OldEvent(c) ==
    /\ oldPc[c] = "idle"
    /\ oldPc' = [oldPc EXCEPT ![c] = "snapshot"]
    /\ reidOutcome' = [reidOutcome EXCEPT ![c] = None]
    /\ parsedPersons' = [parsedPersons EXCEPT ![c] = <<>>]
    /\ personNotifications' = [personNotifications EXCEPT ![c] = 0]
    /\ fallbackNotifications' = [fallbackNotifications EXCEPT ![c] = 0]

\* src/src/main.ts:118-134  no image (snapshot missing or its retrieval threw,
\* caught at 127): return; otherwise reid.convert is awaited
Snapshot(c) ==
    /\ oldPc[c] = "snapshot"
    /\ \E image \in BOOLEAN :
         /\ oldPc' = [oldPc EXCEPT ![c] = IF image THEN "convert" ELSE "idle"]
         /\ reidOutcome' = [reidOutcome EXCEPT ![c] = IF image THEN None ELSE "no_image"]
    /\ UNCHANGED <<parsedPersons, personNotifications, fallbackNotifications>>

\* variant: a result that is not processed is thrown into the catch as well
AfterConvertFallsBack(outcome) ==
    IF outcome \in {"throws", "unparsable", "not_processed"} THEN "fallback"
    ELSE IF outcome = "invalid" THEN "idle"
    ELSE "persons"

\* src/src/main.ts:155-198  where the handler goes after reid.convert: a rejection
\* and a JSON.parse error reach the catch (193-198), an invalid structure (168-171)
\* and processed = false (173-176) return, a processed result is walked through
AfterConvert(outcome) ==
    IF outcome \in {"throws", "unparsable"} THEN "fallback"
    ELSE IF outcome \in {"invalid", "not_processed"} THEN "idle"
    ELSE "persons"

\* src/src/main.ts:155-179
Convert(c) ==
    /\ oldPc[c] = "convert"
    /\ \E outcome \in ConvertOutcomes, list \in PersonLists :
         /\ outcome # "processed" => list = <<>>
         /\ oldPc' = [oldPc EXCEPT ![c] = AfterConvert(outcome)]
         /\ reidOutcome' = [reidOutcome EXCEPT ![c] = outcome]
         /\ parsedPersons' = [parsedPersons EXCEPT ![c] = list]
    /\ UNCHANGED <<personNotifications, fallbackNotifications>>

\* src/src/main.ts:180-192, 218-261  one turn of the loop over parsed.persons:
\* sendPersonNotification for isNew === true, which catches its own errors
VisitPerson(c) ==
    /\ oldPc[c] = "persons"
    /\ IF parsedPersons[c] = <<>>
       THEN /\ oldPc' = [oldPc EXCEPT ![c] = "idle"]
            /\ UNCHANGED <<parsedPersons, personNotifications>>
       ELSE /\ parsedPersons' = [parsedPersons EXCEPT ![c] = Tail(@)]
            /\ personNotifications' =
                 [personNotifications EXCEPT ![c] = IF Head(parsedPersons[c]) THEN @ + 1 ELSE @]
            /\ UNCHANGED oldPc
    /\ UNCHANGED <<reidOutcome, fallbackNotifications>>

\* src/src/main.ts:197, 263-292  sendFallbackNotification, then the handler ends
SendFallback(c) ==
    /\ oldPc[c] = "fallback"
    /\ fallbackNotifications' = [fallbackNotifications EXCEPT ![c] = @ + 1]
    /\ oldPc' = [oldPc EXCEPT ![c] = "idle"]
    /\ UNCHANGED <<reidOutcome, parsedPersons, personNotifications>>

FallbackNext ==
    \/ \E c \in Cameras : OldEvent(c) /\ UNCHANGED <<vars, reidVars, entryVars, listenVars, statsVars>>
    \/ \E c \in Cameras : Snapshot(c) /\ UNCHANGED <<vars, reidVars, entryVars, listenVars, statsVars>>
    \/ \E c \in Cameras : Convert(c) /\ UNCHANGED <<vars, reidVars, entryVars, listenVars, statsVars>>
    \/ \E c \in Cameras : VisitPerson(c) /\ UNCHANGED <<vars, reidVars, entryVars, listenVars, statsVars>>
    \/ \E c \in Cameras : SendFallback(c) /\ UNCHANGED <<vars, reidVars, entryVars, listenVars, statsVars>>

FallbackSpec == Init /\ [][FallbackNext]_fallbackVars

(* ---------------- the ReID engine and its camera mixins ---------------- *)

\* how often the engine's clock advances
MaxReidTicks == 3
\* how many personIds generatePersonId gives out
MaxIds == 3
\* how many random suffixes generatePersonId draws from, standing for the
\* 36^9 strings of Math.random().toString(36).substr(2, 9) (deploy.sh:301)
MaxSuffix == 2
\* the capacity of the cache in the model, standing for max: 1000 (deploy.sh:96)
CacheMax == 2

\* the step of the engine's clock: half a default window
ReidTickStep == DEFAULT_WINDOW_MS \div 2

\* deploy.sh:203-213  embeddings are L2-normalised; here integer vectors of
\* one common length, so that the dot product orders them as the cosine does
Embeddings == {<<5, 0>>, <<3, 4>>, <<0, 5>>, <<-3, 4>>}
NoEmbedding == <<0, 0>>

\* deploy.sh:278-284  cosineSimilarity: the dot product
RECURSIVE DotFrom(_, _, _)
DotFrom(a, b, i) == IF i > Len(a) THEN 0 ELSE a[i] * b[i] + DotFrom(a, b, i + 1)
cosineSimilarity(a, b) == DotFrom(a, b, 1)

\* deploy.sh:91  similarityThreshold = 0.6, on the scale of the model's vectors
similarityThreshold == (6 * cosineSimilarity(<<5, 0>>, <<5, 0>>)) \div 10

\* src_typescript_backup/main.ts:152  the classes the mixin passes on; face is
\* handled as person and animal as vehicle (deploy.sh:133)
DetectionTypes == {"person", "vehicle"}

\* src_typescript_backup/main.ts:296-311  values given to trackingWindowSeconds
WindowChoices == {TRACKING_WINDOW_DEFAULT}

Suffixes == 1..MaxSuffix

\* deploy.sh:300-302  generatePersonId: `person_${Date.now()}_${random suffix}`,
\* with nothing compared against the keys of the cache
generatePersonId(suffix) == <<"person", clock, suffix>>

\* deploy.sh:135  `${detectionType}_${cameraId}_${Math.floor(Date.now() / this.trackingWindowMs)}`
simpleId(type, c) == <<type, c, clock \div trackingWindowMs>>

\* variant: an entry is stale as soon as its age reaches its ttl
StaleAtTtl(en) == clock - en.start >= en.ttl

\* lru-cache: an entry is stale when its age exceeds its ttl; the age counts
\* from set() because updateAgeOnGet and updateAgeOnHas are false (deploy.sh:97-99)
Stale(en) == clock - en.start > en.ttl

\* lru-cache has(): a key that is present and not stale
CacheHas(cache, key) == \E i \in 1..Len(cache) : cache[i].key = key /\ ~Stale(cache[i])

\* variant: the scan does not skip stale entries
RECURSIVE FindFromWithStale(_, _, _, _, _)
FindFromWithStale(cache, e, i, bestIdx, bestSimilarity) ==
    IF i = 0 THEN bestIdx
    ELSE LET similarity == cosineSimilarity(e, cache[i].value.embedding) IN
         IF similarity > bestSimilarity
         THEN FindFromWithStale(cache, e, i - 1, i, similarity)
         ELSE FindFromWithStale(cache, e, i - 1, bestIdx, bestSimilarity)

\* variant: a later entry of the scan that equals the best so far replaces it
RECURSIVE FindFromLastWins(_, _, _, _, _)
FindFromLastWins(cache, e, i, bestIdx, bestSimilarity) ==
    IF i = 0 THEN bestIdx
    ELSE LET similarity == cosineSimilarity(e, cache[i].value.embedding) IN
         IF ~Stale(cache[i]) /\ similarity >= bestSimilarity /\ similarity > 0
         THEN FindFromLastWins(cache, e, i - 1, i, similarity)
         ELSE FindFromLastWins(cache, e, i - 1, bestIdx, bestSimilarity)

\* deploy.sh:258-272  findBestMatch: entries() runs from the most recently used
\* entry to the least and skips stale ones; the first strictly greatest wins
RECURSIVE FindFrom(_, _, _, _, _)
FindFrom(cache, e, i, bestIdx, bestSimilarity) ==
    IF i = 0 THEN bestIdx
    ELSE LET similarity == cosineSimilarity(e, cache[i].value.embedding) IN
         IF ~Stale(cache[i]) /\ similarity > bestSimilarity
         THEN FindFrom(cache, e, i - 1, i, similarity)
         ELSE FindFrom(cache, e, i - 1, bestIdx, bestSimilarity)
findBestMatch(cache, e) == FindFrom(cache, e, Len(cache), 0, 0)

\* variant: a match needs a similarity above the threshold
IsMatchAbove(cache, e) ==
    /\ findBestMatch(cache, e) # 0
    /\ cosineSimilarity(e, cache[findBestMatch(cache, e)].value.embedding) > similarityThreshold

\* deploy.sh:150  match && match.similarity >= this.similarityThreshold
IsMatch(cache, e) ==
    /\ findBestMatch(cache, e) # 0
    /\ cosineSimilarity(e, cache[findBestMatch(cache, e)].value.embedding) >= similarityThreshold

\* variant: a read leaves the entry where it is in the order of eviction
CacheGetInPlace(cache, i) ==
    [cache EXCEPT ![i].value.lastSeen = clock]

\* deploy.sh:152-153  get() makes the entry the most recently used one and
\* leaves its age alone; tracked.lastSeen = now writes into the cached object
CacheGet(cache, i) ==
    SubSeq(cache, 1, i - 1) \o SubSeq(cache, i + 1, Len(cache))
        \o <<[cache[i] EXCEPT !.value.lastSeen = clock]>>

\* lru-cache keyMap: the place of a key in the cache, stale or not; 0 when absent
KeyIndex(cache, key) ==
    IF \E i \in 1..Len(cache) : cache[i].key = key
    THEN CHOOSE i \in 1..Len(cache) : cache[i].key = key
    ELSE 0

\* lru-cache set() of a new key: a full cache drops its least recently used
\* entry; set() of a key it holds drops nothing
Evicted(cache, key) ==
    IF KeyIndex(cache, key) = 0 /\ Len(cache) >= CacheMax THEN Head(cache).key ELSE NoKey

\* deploy.sh:166-176  the entry of a new person, added as the most recently used;
\* of the TrackedPerson the value keeps what processDetection reads or writes
\* set() of a key the cache holds replaces the value and the age of that
\* entry and makes it the most recently used one
CacheSet(cache, key, e) ==
    LET i == KeyIndex(cache, key)
        kept == IF i # 0 THEN SubSeq(cache, 1, i - 1) \o SubSeq(cache, i + 1, Len(cache))
                ELSE IF Len(cache) >= CacheMax THEN Tail(cache)
                ELSE cache IN
    kept \o <<[key |-> key, start |-> clock, ttl |-> trackingWindowMs,
               value |-> [personId |-> key, firstSeen |-> clock, lastSeen |-> clock,
                          embedding |-> e]]>>

\* variant: the window is changed and the entries are carried over
setTrackingWindowKeeping(ms) ==
    /\ trackingWindowMs' = ms
    /\ UNCHANGED trackedPersons

\* deploy.sh:307-316  setTrackingWindow puts a new, empty LRUCache in place
setTrackingWindow(ms) ==
    /\ trackingWindowMs' = ms
    /\ trackedPersons' = <<>>

ReidTick ==
    /\ reidTicks < MaxReidTicks
    /\ reidTicks' = reidTicks + 1
    /\ clock' = clock + ReidTickStep
    /\ answer' = NoAnswer
    /\ UNCHANGED <<session, trackedPersons, trackingWindowMs, nextId, mixin, mpc, issued>>

\* deploy.sh:103-112, src_typescript_backup/main.ts:25-28, 330
Initialize ==
    /\ ~session
    /\ session' = TRUE
    /\ answer' = NoAnswer
    /\ UNCHANGED <<clock, reidTicks, trackedPersons, trackingWindowMs, nextId, mixin, mpc, issued>>

\* src_typescript_backup/main.ts:45-47, 83-105  getMixin constructs the mixin of
\* a camera, which sets the tracking window of the shared engine
GetMixin(c) ==
    /\ ~mixin[c]
    /\ mixin' = [mixin EXCEPT ![c] = TRUE]
    /\ setTrackingWindow(TRACKING_WINDOW_DEFAULT * 1000)
    /\ answer' = NoAnswer
    /\ UNCHANGED <<clock, reidTicks, session, nextId, mpc, issued>>

\* src_typescript_backup/main.ts:306-311  putSetting('trackingWindowSeconds', seconds)
PutSetting(c, seconds) ==
    /\ mixin[c]
    /\ setTrackingWindow(seconds * 1000)
    /\ answer' = NoAnswer
    /\ UNCHANGED <<clock, reidTicks, session, nextId, mixin, mpc, issued>>

\* src_typescript_backup/main.ts:130-169, 188-190  a detection reaches the
\* mixin's processDetection; no thumbnail, or a throw while fetching it: the
\* detection ends without a call of the engine.  The awaits of the thumbnail
\* touch nothing, so the steps below start where processDetection of the
\* engine is called.
ThumbnailMissing(c) ==
    /\ mixin[c]
    /\ mpc[c] = "idle"
    /\ answer' = [kind |-> "no_thumbnail", cam |-> c]
    /\ UNCHANGED mpc
    /\ UNCHANGED <<clock, reidTicks, session, trackedPersons, trackingWindowMs, nextId, mixin, issued>>

\* deploy.sh:128-130  the engine throws when it has no session; the mixin
\* catches and logs (src_typescript_backup/main.ts:188-190)
EngineNotInitialized(c) ==
    /\ mixin[c]
    /\ mpc[c] = "idle"
    /\ ~session
    /\ answer' = [kind |-> "failed", cam |-> c]
    /\ UNCHANGED mpc
    /\ UNCHANGED <<clock, reidTicks, session, trackedPersons, trackingWindowMs, nextId, mixin, issued>>

\* deploy.sh:132-140  a class other than person and face: the id of the
\* class, camera and time bucket is looked up and returned, nothing is stored
SimpleDetection(c, type) ==
    /\ mixin[c]
    /\ mpc[c] = "idle"
    /\ session
    /\ type \notin {"person", "face"}
    /\ UNCHANGED mpc
    /\ answer' = [kind |-> "simple", cam |-> c, type |-> type, emb |-> NoEmbedding,
                  isNew |-> ~CacheHas(trackedPersons, simpleId(type, c)),
                  personId |-> simpleId(type, c), evicted |-> NoKey]
    /\ UNCHANGED <<clock, reidTicks, session, trackedPersons, trackingWindowMs, nextId, mixin, issued>>

\* deploy.sh:143  a person detection suspends in extractEmbedding
StartExtract(c) ==
    /\ mixin[c]
    /\ mpc[c] = "idle"
    /\ session
    /\ mpc' = [mpc EXCEPT ![c] = "extract"]
    /\ answer' = NoAnswer
    /\ UNCHANGED <<clock, reidTicks, session, trackedPersons, trackingWindowMs, nextId, mixin, issued>>

\* deploy.sh:143, 191-214  preprocessing or inference throws
ExtractFail(c) ==
    /\ mpc[c] = "extract"
    /\ mpc' = [mpc EXCEPT ![c] = "idle"]
    /\ answer' = [kind |-> "failed", cam |-> c]
    /\ UNCHANGED <<clock, reidTicks, session, trackedPersons, trackingWindowMs, nextId, mixin, issued>>

\* deploy.sh:150-161  known person
Matched(c, e) ==
    LET i == findBestMatch(trackedPersons, e) IN
    /\ trackedPersons' = CacheGet(trackedPersons, i)
    /\ answer' = [kind |-> "match", cam |-> c, type |-> "person", emb |-> e,
                  isNew |-> FALSE, personId |-> trackedPersons[i].key, evicted |-> NoKey]
    /\ UNCHANGED <<nextId, issued>>

\* deploy.sh:162-185  new person
Inserted(c, e, suffix) ==
    LET personId == generatePersonId(suffix) IN
    /\ nextId <= MaxIds
    /\ nextId' = nextId + 1
    /\ trackedPersons' = CacheSet(trackedPersons, personId, e)
    /\ answer' = [kind |-> "new", cam |-> c, type |-> "person", emb |-> e,
                  isNew |-> TRUE, personId |-> personId,
                  evicted |-> Evicted(trackedPersons, personId)]
    /\ issued' = [pid |-> personId, emb |-> e, cam |-> c, at |-> clock]

\* deploy.sh:143-186  extractEmbedding has resolved with embedding e; the rest
\* of processDetection runs without suspending; suffix is what Math.random
\* gives when a new personId is made
Extracted(c, e, suffix) ==
    /\ mpc[c] = "extract"
    /\ mpc' = [mpc EXCEPT ![c] = "idle"]
    /\ IF IsMatch(trackedPersons, e) THEN Matched(c, e) ELSE Inserted(c, e, suffix)
    /\ UNCHANGED <<clock, reidTicks, session, trackingWindowMs, mixin>>

ReidNext ==
    \/ ReidTick /\ UNCHANGED <<vars, fallbackVars, entryVars, listenVars, statsVars>>
    \/ Initialize /\ UNCHANGED <<vars, fallbackVars, entryVars, listenVars, statsVars>>
    \/ \E c \in Cameras : GetMixin(c) /\ UNCHANGED <<vars, fallbackVars, entryVars, listenVars, statsVars>>
    \/ \E c \in Cameras, seconds \in WindowChoices :
          PutSetting(c, seconds) /\ UNCHANGED <<vars, fallbackVars, entryVars, listenVars, statsVars>>
    \/ \E c \in Cameras : ThumbnailMissing(c) /\ UNCHANGED <<vars, fallbackVars, entryVars, listenVars, statsVars>>
    \/ \E c \in Cameras : EngineNotInitialized(c) /\ UNCHANGED <<vars, fallbackVars, entryVars, listenVars, statsVars>>
    \/ \E c \in Cameras, type \in DetectionTypes :
          SimpleDetection(c, type) /\ UNCHANGED <<vars, fallbackVars, entryVars, listenVars, statsVars>>
    \/ \E c \in Cameras : StartExtract(c) /\ UNCHANGED <<vars, fallbackVars, entryVars, listenVars, statsVars>>
    \/ \E c \in Cameras : ExtractFail(c) /\ UNCHANGED <<vars, fallbackVars, entryVars, listenVars, statsVars>>
    \/ \E c \in Cameras, e \in Embeddings, suffix \in Suffixes :
          Extracted(c, e, suffix) /\ UNCHANGED <<vars, fallbackVars, entryVars, listenVars, statsVars>>

ReidSpec == Init /\ [][ReidNext]_reidVars

(* ---------------- many people in front of the cameras ---------------- *)
\* The notifier with more personIds than the pending map is allowed to hold.
\* The personIds are numbered and come in the order of their numbers; each
\* detection is unlabeled and is handled in one step, since its handler has
\* no await between the lock check and the finally when it takes the generic
\* branch.

MaxCrowd == 102
CrowdBase == 99
Crowd == 1..MaxCrowd

\* main.ts:967, 994  the timer and the entry of a buffer started at time 1
FirstBuffer(p) == [id |-> p, timer |-> [pid |-> p, at |-> 1, n |-> 0]]

\* camA is constructed and the first CrowdBase people have walked in within
\* the same millisecond: the state after Construct("camA") and CrowdBase
\* steps of Arrive("camA")
CrowdInit ==
    /\ now = 1
    /\ ticks = 0
    /\ globalCooldowns = EmptyMap
    /\ globalPendingNotifications = [p \in 1..CrowdBase |-> FirstBuffer(p)]
    /\ globalProcessing = {}
    /\ globalFaceCooldowns = EmptyMap
    /\ timers = {FirstBuffer(p).timer : p \in 1..CrowdBase}
    /\ instanceCount = 1
    /\ globalCleanupInterval = TRUE
    /\ statsInterval = TRUE
    /\ listener = [c \in Cameras |-> c = "camA"]
    /\ pc = [h \in Handlers |-> "idle"]
    /\ cur = [h \in Handlers |-> NoDet]
    /\ running = None
    /\ last = Decision("buffered", "camA", CrowdBase, NoLabel)
    /\ oldPc = [c \in Cameras |-> "idle"]
    /\ reidOutcome = [c \in Cameras |-> None]
    /\ parsedPersons = [c \in Cameras |-> <<>>]
    /\ personNotifications = [c \in Cameras |-> 0]
    /\ fallbackNotifications = [c \in Cameras |-> 0]
    /\ clock = 1
    /\ reidTicks = 0
    /\ session = FALSE
    /\ trackedPersons = <<>>
    /\ trackingWindowMs = DEFAULT_WINDOW_MS
    /\ nextId = 1
    /\ mixin = [c \in Cameras |-> FALSE]
    /\ mpc = [c \in Cameras |-> "idle"]
    /\ answer = NoAnswer
    /\ issued = [pid |-> NoKey]
    /\ entryNow = 1
    /\ entryTicks = 0
    /\ detectionLastProcessed = [c \in Cameras |-> EmptyMap]
    /\ personDetections = 0
    /\ faceDetections = 0
    /\ entry = NoEntry
    /\ mixinState = "none"
    /\ enabled = FALSE
    /\ mixinListener = NoListener
    /\ deviceListeners = {}
    /\ listening = {}
    /\ removing = {}
    /\ listens = 0
    /\ genericNotificationsSent = 0
    /\ namedNotificationsSent = 0
    /\ upgradeNotificationsSent = 0
    /\ dispatched = 0

\* the personIds seen so far: those with a buffer or with a cooldown record
Seen == PendingIds(globalPendingNotifications) \cup DOMAIN globalCooldowns \cup {CrowdBase}

Largest(S) == CHOOSE p \in S : \A q \in S : q <= p

\* the next personId to walk in
Newcomer == 1 + Largest(Seen)

\* main.ts:846-857, 944-998  an unlabeled detection of a personId with no
\* record in force and no buffer: lock, checks, timer, entry, unlock
Arrive(c) ==
    /\ running = None
    /\ listener[c]
    /\ LET personId == Newcomer
           timer == NewTimer(personId)
       IN /\ personId \in Crowd
          /\ personId \notin globalProcessing
          /\ Verdict(c, personId, NoLabel) = "buffer"
          /\ timers' = timers \cup {timer}
          /\ globalPendingNotifications' =
                PendingSet(globalPendingNotifications, personId, timer)
          /\ last' = Decision("buffered", c, personId, NoLabel)
    /\ UNCHANGED <<now, ticks, globalCooldowns, globalFaceCooldowns,
                   globalProcessing, lifecycle, pc, cur, running>>

\* timers set with the same delay run in the order in which they were set:
\* the callback of the oldest buffer is the one that runs
FireOldest(c) ==
    /\ Len(globalPendingNotifications) > 0
    /\ TimerFire(Head(globalPendingNotifications).timer, c)

CrowdNext ==
    \/ \E d \in TickSteps : Tick(d) /\ UNCHANGED elsewhere
    \/ GlobalSweep /\ UNCHANGED elsewhere
    \/ Arrive("camA") /\ UNCHANGED elsewhere
    \/ FireOldest("camA") /\ UNCHANGED elsewhere

CrowdSpec == CrowdInit /\ [][CrowdNext]_vars

\* the clock goes on, and a timer whose delay has passed runs once the
\* thread is free
CrowdFairness ==
    /\ WF_vars(\E d \in TickSteps : Tick(d) /\ UNCHANGED elsewhere)
    /\ WF_vars(FireOldest("camA") /\ UNCHANGED elsewhere)

FairCrowdSpec == CrowdSpec /\ CrowdFairness

\* the personId that was notified by name before the crowd walked in
Veteran == 0

\* the time at which a record written at time 1 is older than the retention
LongAfter == 1 + COOLDOWN_RETENTION_MS + 1

\* main.ts:967, 994  the timer and the entry of a buffer started at LongAfter
LateBuffer(p) == [id |-> p, timer |-> [pid |-> p, at |-> LongAfter, n |-> 0]]

\* camA was constructed and the Veteran was notified as "Alice" at time 1
\* (main.ts:939, 1020-1024: record and face cooldown); more than the
\* retention later the first CrowdBase people walk in within one millisecond
LongAfterInit ==
    /\ now = LongAfter
    /\ ticks = 0
    /\ globalCooldowns = MapSet(EmptyMap, Veteran, [timestamp |-> 1, label |-> "Alice"])
    /\ globalPendingNotifications = [p \in 1..CrowdBase |-> LateBuffer(p)]
    /\ globalProcessing = {}
    /\ globalFaceCooldowns = MapSet(EmptyMap, "Alice", 1)
    /\ timers = {LateBuffer(p).timer : p \in 1..CrowdBase}
    /\ instanceCount = 1
    /\ globalCleanupInterval = TRUE
    /\ statsInterval = TRUE
    /\ listener = [c \in Cameras |-> c = "camA"]
    /\ pc = [h \in Handlers |-> "idle"]
    /\ cur = [h \in Handlers |-> NoDet]
    /\ running = None
    /\ last = Decision("buffered", "camA", CrowdBase, NoLabel)
    /\ oldPc = [c \in Cameras |-> "idle"]
    /\ reidOutcome = [c \in Cameras |-> None]
    /\ parsedPersons = [c \in Cameras |-> <<>>]
    /\ personNotifications = [c \in Cameras |-> 0]
    /\ fallbackNotifications = [c \in Cameras |-> 0]
    /\ clock = 1
    /\ reidTicks = 0
    /\ session = FALSE
    /\ trackedPersons = <<>>
    /\ trackingWindowMs = DEFAULT_WINDOW_MS
    /\ nextId = 1
    /\ mixin = [c \in Cameras |-> FALSE]
    /\ mpc = [c \in Cameras |-> "idle"]
    /\ answer = NoAnswer
    /\ issued = [pid |-> NoKey]
    /\ entryNow = 1
    /\ entryTicks = 0
    /\ detectionLastProcessed = [c \in Cameras |-> EmptyMap]
    /\ personDetections = 0
    /\ faceDetections = 0
    /\ entry = NoEntry
    /\ mixinState = "none"
    /\ enabled = FALSE
    /\ mixinListener = NoListener
    /\ deviceListeners = {}
    /\ listening = {}
    /\ removing = {}
    /\ listens = 0
    /\ genericNotificationsSent = 0
    /\ namedNotificationsSent = 0
    /\ upgradeNotificationsSent = 0
    /\ dispatched = 0

\* the crowded notifier long after its first notification
LongAfterSpec == LongAfterInit /\ [][CrowdNext]_vars

(* ---------------- the callback before its first await ---------------- *)
\* the score thresholds, in hundredths
PERSON_THRESHOLD == 80
FACE_THRESHOLD == 70
THROTTLE_MS == 1000
THROTTLE_RETENTION_MS == 60000

MaxEntryTicks == 2
MaxCount == 2
MaxDetections == 1

\* half the throttle, and the period of the local cleanup
EntryTickSteps == {THROTTLE_MS \div 2, THROTTLE_RETENTION_MS}

\* detected.detectionId: a motion-only event carries none
NoDetectionId == ""
DetectionIds == {"d1", "d2"}

\* entries of detected.detections, with the score in hundredths
DetEntries ==
    {[className |-> "person", score |-> PERSON_THRESHOLD],
     [className |-> "person", score |-> PERSON_THRESHOLD - 1],
     [className |-> "face", score |-> FACE_THRESHOLD],
     [className |-> "face", score |-> FACE_THRESHOLD - 1],
     [className |-> "motion", score |-> 99]}

\* detected.detections when it is a list
DetLists == UNION {[1..n -> DetEntries] : n \in 0..MaxDetections}

\* an event: detected.detections is missing (present is FALSE) or is a list
EntryEvents ==
    {ev \in [detectionId : {NoDetectionId} \cup DetectionIds,
             present : BOOLEAN, detections : DetLists] :
        ev.present \/ ev.detections = <<>>}

\* main.ts:702-705  the score filter
Passing(d) ==
    \/ d.className = "person" /\ d.score >= PERSON_THRESHOLD
    \/ d.className = "face" /\ d.score >= FACE_THRESHOLD

\* main.ts:713-719  how many entries of a class pass the filter
Counted(list, className) ==
    Cardinality({i \in 1..Len(list) : Passing(list[i]) /\ list[i].className = className})

\* variant: the throttle lasts half as long
ThrottledBriefly(c, detectionId) ==
    /\ Has(detectionLastProcessed[c], detectionId)
    /\ entryNow - detectionLastProcessed[c][detectionId] < THROTTLE_MS \div 2

\* main.ts:685-689  the event comes less than a second after the event with
\* the same detectionId that was processed last
Throttled(c, detectionId) ==
    /\ Has(detectionLastProcessed[c], detectionId)
    /\ entryNow - detectionLastProcessed[c][detectionId] < THROTTLE_MS

\* main.ts:679-724  which return the callback takes, or "reid" when it goes
\* on to the snapshot and the ReID call
EntryOutcome(c, ev) ==
    IF ev.detectionId = NoDetectionId THEN "no_id"
    ELSE IF Throttled(c, ev.detectionId) THEN "throttled"
    ELSE IF ~ev.present THEN "no_detections"
    ELSE IF Counted(ev.detections, "person") + Counted(ev.detections, "face") = 0
         THEN "no_person"
    ELSE "reid"

\* variant: the throttle timestamp is written before the detectionId guard
ThrottleStampedFirst(c, ev) ==
    IF Throttled(c, ev.detectionId)
    THEN detectionLastProcessed
    ELSE [detectionLastProcessed EXCEPT ![c] = MapSet(@, ev.detectionId, entryNow)]

\* main.ts:679-690  the throttle map after the event: the timestamp is
\* written once the event is past the detectionId guard and the throttle
ThrottleAfter(c, ev) ==
    IF EntryOutcome(c, ev) \in {"no_id", "throttled"}
    THEN detectionLastProcessed
    ELSE [detectionLastProcessed EXCEPT ![c] = MapSet(@, ev.detectionId, entryNow)]

EntryTick(d) ==
    /\ entryTicks < MaxEntryTicks
    /\ entryNow' = entryNow + d
    /\ entryTicks' = entryTicks + 1
    /\ entry' = NoEntry
    /\ UNCHANGED <<detectionLastProcessed, personDetections, faceDetections>>

\* main.ts:664-673  the cleanup interval of one mixin
LocalCleanup(c) ==
    /\ detectionLastProcessed' =
         [detectionLastProcessed EXCEPT ![c] =
            [k \in {x \in DOMAIN @ : ~(entryNow - @[x] > THROTTLE_RETENTION_MS)} |-> @[k]]]
    /\ entry' = NoEntry
    /\ UNCHANGED <<entryNow, entryTicks, personDetections, faceDetections>>

\* main.ts:678-724  the callback of camera c for one event, up to its return
\* or to the await of the snapshot
EntryEvent(c, ev) ==
    LET outcome == EntryOutcome(c, ev)
        persons == IF outcome = "reid" THEN Counted(ev.detections, "person") ELSE 0
        faces == IF outcome = "reid" THEN Counted(ev.detections, "face") ELSE 0
    IN /\ personDetections + persons <= MaxCount
       /\ faceDetections + faces <= MaxCount
       /\ detectionLastProcessed' = ThrottleAfter(c, ev)
       /\ personDetections' = personDetections + persons
       /\ faceDetections' = faceDetections + faces
       /\ entry' = [kind |-> outcome, cam |-> c, detectionId |-> ev.detectionId]
       /\ UNCHANGED <<entryNow, entryTicks>>

EntryNext ==
    \/ \E d \in EntryTickSteps : EntryTick(d) /\ UNCHANGED <<vars, fallbackVars, reidVars, listenVars, statsVars>>
    \/ \E c \in Cameras : LocalCleanup(c) /\ UNCHANGED <<vars, fallbackVars, reidVars, listenVars, statsVars>>
    \/ \E c \in Cameras, ev \in EntryEvents :
          EntryEvent(c, ev) /\ UNCHANGED <<vars, fallbackVars, reidVars, listenVars, statsVars>>

EntrySpec == Init /\ [][EntryNext]_entryVars

(* ---------------- the detection listener of a ReID camera mixin ---------------- *)

\* how many device.listen calls the mixin makes
MaxListens == 3

\* src_typescript_backup/main.ts:107-110  startListening up to its await: the
\* call of device.listen is made whatever this.listener holds
StartListening ==
    /\ listens < MaxListens
    /\ listens' = listens + 1
    /\ listening' = listening \cup {listens + 1}
    /\ UNCHANGED <<mixinListener, deviceListeners, removing>>

\* src_typescript_backup/main.ts:123-125  stopListening up to its await:
\* removeListener is called only when this.listener is set
StopListening ==
    /\ removing' = IF mixinListener # NoListener THEN removing \cup {mixinListener} ELSE removing
    /\ UNCHANGED <<mixinListener, deviceListeners, listening, listens>>

\* src_typescript_backup/main.ts:83-105  the constructor; saved is the stored
\* value of 'enabled', true when nothing is stored
MixinConstruct(saved) ==
    /\ mixinState = "none"
    /\ mixinState' = "live"
    /\ enabled' = saved
    /\ IF saved THEN StartListening
       ELSE UNCHANGED <<mixinListener, deviceListeners, listening, removing, listens>>

\* src_typescript_backup/main.ts:110-116  device.listen has registered the
\* callback and resolved: this.listener is assigned
ListenResolved(k) ==
    /\ k \in listening
    /\ listening' = listening \ {k}
    /\ deviceListeners' = deviceListeners \cup {k}
    /\ mixinListener' = k
    /\ UNCHANGED <<mixinState, enabled, removing, listens>>

\* src_typescript_backup/main.ts:117-119  device.listen has rejected: the catch logs
ListenRejected(k) ==
    /\ k \in listening
    /\ listening' = listening \ {k}
    /\ UNCHANGED <<mixinState, enabled, mixinListener, deviceListeners, removing, listens>>

\* src_typescript_backup/main.ts:125-127  removeListener has resolved:
\* this.listener = undefined, whatever it holds by now
RemoveResolved(k) ==
    /\ k \in removing
    /\ removing' = removing \ {k}
    /\ deviceListeners' = deviceListeners \ {k}
    /\ mixinListener' = NoListener
    /\ UNCHANGED <<mixinState, enabled, listening, listens>>

\* src_typescript_backup/main.ts:312-319  putSetting('enabled', value)
PutEnabled(value) ==
    /\ mixinState = "live"
    /\ enabled' = value
    /\ IF value THEN StartListening ELSE StopListening
    /\ UNCHANGED mixinState

\* src_typescript_backup/main.ts:322-325  release()
MixinRelease ==
    /\ mixinState = "live"
    /\ mixinState' = "released"
    /\ StopListening
    /\ UNCHANGED enabled

ListenNext ==
    \/ \E saved \in BOOLEAN : MixinConstruct(saved) /\ UNCHANGED <<vars, fallbackVars, reidVars, entryVars, statsVars>>
    \/ \E k \in listening : ListenResolved(k) /\ UNCHANGED <<vars, fallbackVars, reidVars, entryVars, statsVars>>
    \/ \E k \in listening : ListenRejected(k) /\ UNCHANGED <<vars, fallbackVars, reidVars, entryVars, statsVars>>
    \/ \E k \in removing : RemoveResolved(k) /\ UNCHANGED <<vars, fallbackVars, reidVars, entryVars, statsVars>>
    \/ \E value \in BOOLEAN : PutEnabled(value) /\ UNCHANGED <<vars, fallbackVars, reidVars, entryVars, statsVars>>
    \/ MixinRelease /\ UNCHANGED <<vars, fallbackVars, reidVars, entryVars, statsVars>>

ListenSpec == Init /\ [][ListenNext]_listenVars

(* ---------------- the notification counters ---------------- *)

\* 1 when the step just made is of one of the kinds, 0 otherwise
Made(kinds) == IF last'.kind \in kinds THEN 1 ELSE 0

\* main.ts:896-899  isUpgrade: the detection that passed the checks has a name
\* and the record in force for its personId has none
UpgradeMade == IF last'.kind = "named" /\ last'.prior = NoLabel THEN 1 ELSE 0

\* what the step of the notifier just made adds to the counters:
\* main.ts:899 upgradeNotificationsSent++ in the checks, main.ts:942-943
\* namedNotificationsSent++ and the call of sendNotification in the named
\* branch, main.ts:989-990 genericNotificationsSent++ and the call in the
\* timer callback
Tally ==
    /\ upgradeNotificationsSent' = upgradeNotificationsSent + UpgradeMade
    /\ namedNotificationsSent' = namedNotificationsSent + Made({"sent_named"})
    /\ genericNotificationsSent' = genericNotificationsSent + Made({"sent_generic"})
    /\ dispatched' = dispatched + Made({"sent_named", "sent_generic"})

\* main.ts:559  totalNotifications of logStats
totalNotifications ==
    genericNotificationsSent + namedNotificationsSent + upgradeNotificationsSent

\* the steps of the notifier between the construction of the mixins and
\* their release, each with what it adds to the counters
StatsNext ==
    \/ \E d \in TickSteps : Tick(d) /\ Tally /\ UNCHANGED <<fallbackVars, reidVars, entryVars, listenVars>>
    \/ \E c \in Cameras : Construct(c) /\ Tally /\ UNCHANGED <<fallbackVars, reidVars, entryVars, listenVars>>
    \/ GlobalSweep /\ Tally /\ UNCHANGED <<fallbackVars, reidVars, entryVars, listenVars>>
    \/ \E h \in Handlers : Event(h) /\ Tally /\ UNCHANGED <<fallbackVars, reidVars, entryVars, listenVars>>
    \/ \E h \in Handlers : ReidFail(h) /\ Tally /\ UNCHANGED <<fallbackVars, reidVars, entryVars, listenVars>>
    \/ \E h \in Handlers : ReidResponse(h) /\ Tally /\ UNCHANGED <<fallbackVars, reidVars, entryVars, listenVars>>
    \/ \E h \in Handlers : Check(h) /\ Tally /\ UNCHANGED <<fallbackVars, reidVars, entryVars, listenVars>>
    \/ \E h \in Handlers : Mark(h) /\ Tally /\ UNCHANGED <<fallbackVars, reidVars, entryVars, listenVars>>
    \/ \E h \in Handlers : SendSettled(h) /\ Tally /\ UNCHANGED <<fallbackVars, reidVars, entryVars, listenVars>>
    \/ \E t \in timers, c \in Cameras : TimerFire(t, c) /\ Tally /\ UNCHANGED <<fallbackVars, reidVars, entryVars, listenVars>>

StatsSpec == Init /\ [][StatsNext]_<<vars, statsVars>>

(* ---------------- properties ---------------- *)

\* decisions of Check for an entry that names a person
CheckKinds == {"lock", "face", "cooldown", "pending", "named", "buffer"}
\* decisions of the named branch of Mark
NamedKinds == {"dup", "sent_named"}

TimersOf(ts, personId) == {t \in ts : t.pid = personId}

\* the step just taken dropped the detection and wrote nothing
Suppressed ==
    /\ last'.kind \in {"lock", "face", "cooldown", "pending"}
    /\ UNCHANGED globalState

\* the named branch cancelled any buffer and recorded the named notification
NamedRecorded ==
    /\ last'.kind = "sent_named"
    /\ ~PendingHas(globalPendingNotifications', last'.pid)
    /\ TimersOf(timers', last'.pid) = {}
    /\ globalCooldowns'[last'.pid] = [timestamp |-> now, label |-> last'.label]

\* C1: when a named notification for label L is decided, no cooldown record of
\* an earlier notification with the same label L (of any personId) is younger
\* than the cooldown window: two named notifications for one label are at
\* least PERSON_COOLDOWN_MS apart.
OneNamedPerLabelPerWindow ==
    [][last'.kind = "sent_named" =>
         \A p \in DOMAIN globalCooldowns :
             globalCooldowns[p].label = last'.label
                 => now - globalCooldowns[p].timestamp >= PERSON_COOLDOWN_MS]_vars

\* C2: an unlabeled detection for a personId whose buffer is pending is
\* suppressed; a buffer is created only when the personId has no entry and no
\* live timer, and leaves it with exactly one of each; a generic notification
\* consumes the one timer of its personId.  So concurrent unlabeled detections
\* of one personId create one buffer and at most one notification.
OneBufferPerPerson ==
    [][/\ (last'.kind \in CheckKinds /\ last'.label = NoLabel /\ last'.buffer)
            => Suppressed
       /\ last'.kind = "buffered" =>
            /\ ~last'.buffer
            /\ TimersOf(timers, last'.pid) = {}
            /\ Cardinality(TimersOf(timers', last'.pid)) = 1
            /\ PendingHas(globalPendingNotifications', last'.pid)
       /\ last'.kind = "sent_generic" =>
            /\ Cardinality(TimersOf(timers, last'.pid)) = 1
            /\ TimersOf(timers', last'.pid) = {}
            /\ ~PendingHas(globalPendingNotifications', last'.pid)]_vars

\* a second camera's unlabeled detection was suppressed at the instant the
\* buffer of its personId was started
SecondUnlabeledSuppressed ==
    /\ last.kind = "pending"
    /\ last.cam = "camB"
    /\ \E t \in timers : t.pid = last.pid /\ t.at = now

\* C3 as stated: a labeled detection for a personId whose buffer is pending
\* always takes the named branch, which cancels the buffer (entry and timer)
\* and records one named notification.
BufferCancelledByLabel ==
    [][/\ (last'.kind \in CheckKinds /\ last'.label # NoLabel /\ last'.buffer)
            => last'.kind = "named"
       /\ (last'.kind \in NamedKinds /\ last'.buffer) => NamedRecorded]_vars

\* C3 amended: the same, for a label whose face cooldown is not in force.
BufferCancelledByFreshLabel ==
    [][/\ (/\ last'.kind \in CheckKinds /\ last'.label # NoLabel /\ last'.buffer
           /\ ~FaceCooldownActive(last'.label))
            => last'.kind = "named"
       /\ (last'.kind \in NamedKinds /\ last'.buffer) => NamedRecorded]_vars

\* a named notification was decided while a buffer was pending, and the buffer
\* is gone
BufferWasCancelled ==
    /\ last.kind = "sent_named"
    /\ last.buffer
    /\ ~PendingHas(globalPendingNotifications, last.pid)
    /\ TimersOf(timers, last.pid) = {}

UnlabeledFollowsWindow ==
    [][(last'.kind \in CheckKinds /\ last'.label = NoLabel
          /\ Has(globalCooldowns, last'.pid)) =>
            IF last'.prior # None THEN Suppressed
            ELSE ~last'.buffer => last'.kind = "buffer"]_vars

CheckAndWriteIndivisible ==
    \A h \in Handlers :
        pc[h] = "checked" =>
            /\ Verdict(CameraOf(h), cur[h].pid, cur[h].label) \in {"named", "buffer"}
            /\ \A g \in Handlers \ {h} :
                 pc[g] = "checked" =>
                     /\ cur[g].pid # cur[h].pid
                     /\ cur[h].label # NoLabel => cur[g].label # cur[h].label

\* one handler is between check and write while the other is in flight in an await
CheckedWhileOtherInFlight ==
    \E h \in Handlers, g \in Handlers :
        /\ g # h
        /\ pc[h] = "checked"
        /\ pc[g] \in {"reid", "sending"}

\* C8: the step that decides a named notification writes the cooldown record
\* of the personId and the face cooldown of the label with the time of the
\* decision; the step that decides a generic notification writes the cooldown
\* record of the personId with no label.
MarkBeforeSend ==
    [][/\ last'.kind = "sent_named" =>
            /\ globalCooldowns'[last'.pid] = [timestamp |-> now, label |-> last'.label]
            /\ Has(globalFaceCooldowns', last'.label)
            /\ globalFaceCooldowns'[last'.label] = now
       /\ last'.kind = "sent_generic" =>
            globalCooldowns'[last'.pid] = [timestamp |-> now, label |-> NoLabel]]_vars

\* C9: no handler is suspended in an await while the personId it decided for
\* is in globalProcessing.
LockNeverHeldAcrossAwait ==
    \A h \in Handlers : pc[h] \in AwaitPoints => cur[h].pid \notin globalProcessing

\* C10: on whichever camera a detection is handled, an unlabeled one whose
\* personId has a cooldown record in force, and a labeled one whose label has
\* a face cooldown in force, is suppressed.
CooldownsSharedAcrossCameras ==
    [][(/\ last'.kind \in CheckKinds
        /\ last'.cam \in Cameras
        /\ \/ last'.label = NoLabel /\ CooldownActive(globalCooldowns, last'.pid)
           \/ last'.label # NoLabel /\ FaceCooldownActive(last'.label))
            => Suppressed]_vars

\* camB suppressed a name whose notification camA decided for another personId
\* and is still delivering
SuppressedOnOtherCamera ==
    /\ last.kind = "face"
    /\ last.cam = "camB"
    /\ pc["h1"] = "sending"
    /\ cur["h1"].label = last.label
    /\ cur["h1"].pid # last.pid

\* the four maps and the timers are empty after the step
AllCleared ==
    /\ timers' = {}
    /\ globalCooldowns' = EmptyMap
    /\ globalFaceCooldowns' = EmptyMap
    /\ globalPendingNotifications' = <<>>
    /\ globalProcessing' = {}

\* C11: a step that releases the mixin of a camera leaves no live timer and
\* empties the cooldown map, the face cooldown map, the pending map and the
\* lock set; and once no mixin is left no buffer timer callback runs.
ReleaseClearsEverything ==
    [][/\ (\E c \in Cameras : listener[c] /\ ~listener'[c]) => AllCleared
       /\ last'.kind \in {"sent_generic", "timer_skip"} => instanceCount # 0]_vars

\* C12: a step in which the awaited delivery fails changes no cooldown
\* record, no face cooldown, no buffer and no timer and starts no new send;
\* and a detection that repeats the label of the record in force for its
\* personId (or is unlabeled like it) is suppressed, whatever became of the
\* delivery.
FailedDeliveryKeepsRecords ==
    [][/\ last'.kind = "failed" =>
            /\ UNCHANGED <<globalCooldowns, globalFaceCooldowns,
                           globalPendingNotifications, timers>>
            /\ \A h \in Handlers : pc'[h] = "sending" => pc[h] = "sending"
       /\ (last'.kind \in CheckKinds /\ last'.prior = last'.label) => Suppressed]_vars

\* a delivery has just failed and both records of its decision are in force
RecordsInForceAfterFailure ==
    /\ last.kind = "failed"
    /\ CooldownActive(globalCooldowns, last.pid)
    /\ globalCooldowns[last.pid].label = last.label
    /\ FaceCooldownActive(last.label)

FailedReidFallsBack ==
    \A c \in Cameras :
        (oldPc[c] = "idle" /\ reidOutcome[c] \in {"throws", "unparsable", "not_processed"})
            => fallbackNotifications[c] = 1 /\ personNotifications[c] = 0

(* ---------------- properties of the ReID engine ---------------- *)

\* a processDetection of class person has just returned
PersonAnswered == answer'.kind \in {"match", "new"}

\* C15: once an identity has been handed out as new on one camera, a person
\* detection on another camera whose embedding matches it, handled inside the
\* tracking window, is answered isNew = false (with the personId of that
\* identity when the embeddings are identical), whatever getMixin, putSetting
\* and processDetection did in between
DedupAcrossCameras ==
    [][(/\ PersonAnswered
        /\ issued.pid # NoKey
        /\ issued.cam # answer'.cam
        /\ cosineSimilarity(issued.emb, answer'.emb) >= similarityThreshold
        /\ clock' - issued.at <= trackingWindowMs')
          => /\ answer'.isNew = FALSE
             /\ issued.emb = answer'.emb => answer'.personId = issued.pid]_reidVars

\* C16: while an identity inserted for embedding e is in the cache and inside
\* its tracking window, a person detection with the identical embedding is
\* answered isNew = false with the personId of that identity, and the cache
\* holds as many entries as before
IdenticalEmbeddingMatches ==
    [][\A i \in 1..Len(trackedPersons) :
          (/\ PersonAnswered
           /\ trackedPersons[i].value.embedding = answer'.emb
           /\ clock' - trackedPersons[i].value.firstSeen <= trackingWindowMs)
             => /\ answer'.isNew = FALSE
                /\ answer'.personId = trackedPersons[i].value.personId
                /\ Len(trackedPersons') = Len(trackedPersons)]_reidVars

\* an identical embedding was matched at the very end of the window of its identity
MatchedAtEndOfWindow ==
    /\ answer.kind = "match"
    /\ \E i \in 1..Len(trackedPersons) :
         /\ trackedPersons[i].key = answer.personId
         /\ trackedPersons[i].value.embedding = answer.emb
         /\ clock - trackedPersons[i].value.firstSeen = trackingWindowMs

\* C17: a match sets lastSeen of the matched identity to the time of the
\* match, and an identity whose lastSeen is at most one tracking window back
\* is matched by a person detection with its embedding, however long ago it
\* was created
LivenessFromLastSeen ==
    [][/\ answer'.kind = "match" =>
            \E j \in 1..Len(trackedPersons') :
                /\ trackedPersons'[j].key = answer'.personId
                /\ trackedPersons'[j].value.lastSeen = clock'
       /\ \A i \in 1..Len(trackedPersons) :
            (/\ PersonAnswered
             /\ trackedPersons[i].value.embedding = answer'.emb
             /\ clock' - trackedPersons[i].value.lastSeen <= trackingWindowMs)
               => /\ answer'.isNew = FALSE
                  /\ answer'.personId = trackedPersons[i].value.personId]_reidVars

\* the identity of entry en was last seen more than one tracking window ago
Expired(en) == clock' - en.value.lastSeen > trackingWindowMs

\* C18: an identity last seen more than one tracking window ago is never
\* returned as the match of a person detection, purged or not; when every
\* identity the embedding reaches is expired in this way, the detection is
\* answered isNew = true with a personId that none of them carries
ExpiredNeverMatched ==
    [][PersonAnswered =>
        /\ \A i \in 1..Len(trackedPersons) :
              Expired(trackedPersons[i]) => answer'.personId # trackedPersons[i].key
        /\ (\A i \in 1..Len(trackedPersons) :
               cosineSimilarity(trackedPersons[i].value.embedding, answer'.emb)
                   >= similarityThreshold => Expired(trackedPersons[i]))
             => /\ answer'.isNew = TRUE
                /\ \A i \in 1..Len(trackedPersons) :
                      cosineSimilarity(trackedPersons[i].value.embedding, answer'.emb)
                          >= similarityThreshold => answer'.personId # trackedPersons[i].key]_reidVars

\* a detection was answered as new while the expired identity with the
\* identical embedding was still in the cache
NewBesideUnpurgedEntry ==
    /\ answer.kind = "new"
    /\ \E i \in 1..Len(trackedPersons) :
         /\ trackedPersons[i].value.embedding = answer.emb
         /\ trackedPersons[i].key # answer.personId
         /\ clock - trackedPersons[i].value.lastSeen > trackingWindowMs

Keys(cache) == {cache[i].key : i \in 1..Len(cache)}

\* C19: the cache never holds more entries than its capacity, and the insertion
\* of an identity under a new key into a full cache removes exactly one entry,
\* one that no other entry precedes in the time of its last update (insertion
\* or match)
CapacityBound ==
    [][/\ Len(trackedPersons') <= CacheMax
       /\ (/\ answer'.kind = "new"
           /\ Len(trackedPersons) = CacheMax
           /\ answer'.personId \notin Keys(trackedPersons)) =>
            /\ Cardinality(Keys(trackedPersons) \ Keys(trackedPersons')) = 1
            /\ Keys(trackedPersons') \ Keys(trackedPersons) = {answer'.personId}
            /\ \A i, j \in 1..Len(trackedPersons) :
                  trackedPersons[i].key \notin Keys(trackedPersons')
                     => trackedPersons[i].value.lastSeen <= trackedPersons[j].value.lastSeen]_reidVars

\* a full cache took a new identity and dropped an entry that was inserted
\* after one it kept, because the kept one had been matched since
EvictedNotTheOldest ==
    /\ answer.kind = "new"
    /\ answer.evicted # NoKey
    /\ Len(trackedPersons) = CacheMax
    /\ \E i \in 1..Len(trackedPersons) :
         /\ trackedPersons[i].value.firstSeen < answer.evicted[2]
         /\ trackedPersons[i].value.lastSeen > trackedPersons[i].value.firstSeen

\* C20: a detection of a class other than person and face is answered with
\* the id made of its class, its camera and the time bucket, with isNew telling
\* whether the cache lacked that id, and after the call the cache holds the
\* id, so that a later detection of the bucket is answered isNew = false
BucketIdRemembered ==
    [][answer'.kind = "simple" =>
        /\ answer'.personId = <<answer'.type, answer'.cam, clock' \div trackingWindowMs'>>
        /\ answer'.isNew = (answer'.personId \notin Keys(trackedPersons))
        /\ answer'.personId \in Keys(trackedPersons')]_reidVars

(* ---------------- further properties of the notifier ---------------- *)

\* C22: a labeled detection whose face cooldown is not in force, for a
\* personId with a cooldown record in force, passes the checks exactly when
\* the label of the record is null or differs from its own; when the labels
\* are equal it is dropped and nothing is written.
LabelPassesIffUpgradeOrChange ==
    [][(/\ last'.kind \in CheckKinds
        /\ last'.label # NoLabel
        /\ ~FaceCooldownActive(last'.label)
        /\ last'.prior # None)
          => IF last'.prior = last'.label THEN Suppressed ELSE last'.kind = "named"]_vars

\* the same for a detection that finds the lock of its personId free
LabelPassesWhenUnlocked ==
    [][(/\ last'.kind \in CheckKinds \ {"lock"}
        /\ last'.label # NoLabel
        /\ ~FaceCooldownActive(last'.label)
        /\ last'.prior # None)
          => IF last'.prior = last'.label THEN Suppressed ELSE last'.kind = "named"]_vars

\* C23: the callback of a buffer timer removes the entry of its personId; it
\* skips the notification exactly when a cooldown record of the personId is
\* in force and then writes nothing, and otherwise it writes the record
\* {now, no label} and dispatches the one generic notification.
TimerCallbackOutcome ==
    [][/\ last'.kind \in {"timer_skip", "sent_generic"} =>
            /\ ~PendingHas(globalPendingNotifications', last'.pid)
            /\ PendingHas(globalPendingNotifications, last'.pid)
            /\ TimersOf(timers', last'.pid) = {}
       /\ last'.kind = "timer_skip" =>
            /\ last'.prior # None
            /\ UNCHANGED <<globalCooldowns, globalFaceCooldowns>>
       /\ last'.kind = "sent_generic" =>
            /\ last'.prior = None
            /\ globalCooldowns'[last'.pid] = [timestamp |-> now, label |-> NoLabel]]_vars

\* a buffer timer has just fired and recorded its generic notification, with
\* the buffer of the other personId still waiting
FiredBesideWaitingBuffer ==
    /\ last.kind = "sent_generic"
    /\ globalCooldowns[last.pid] = [timestamp |-> now, label |-> NoLabel]
    /\ ~PendingHas(globalPendingNotifications, last.pid)
    /\ Len(globalPendingNotifications) = 1

\* C24: a decision that drops the detection (lock, face cooldown, cooldown of
\* the personId, pending buffer, or the second look at the cooldown) leaves
\* the cooldown map, the face cooldown map, the pending map and the timers
\* unchanged.
SuppressWritesNothing ==
    [][last'.kind \in {"lock", "face", "cooldown", "pending", "dup"} =>
          UNCHANGED <<globalCooldowns, globalFaceCooldowns,
                      globalPendingNotifications, timers>>]_vars

\* an unlabeled frame was dropped for a buffer started at an earlier time,
\* and the buffer still holds the timer it was started with
DroppedForOlderBuffer ==
    /\ last.kind = "pending"
    /\ \E i \in 1..Len(globalPendingNotifications) :
         /\ globalPendingNotifications[i].id = last.pid
         /\ globalPendingNotifications[i].timer.at < now
         /\ globalPendingNotifications[i].timer \in timers

\* C25: a detection dropped at the lock check leaves the lock set as it is,
\* its personId included; a personId leaves the lock set only in a step of
\* the handler that holds it, or when the last mixin is released.
LockKeptByHolder ==
    [][/\ last'.kind = "lock" =>
            /\ last'.pid \in globalProcessing'
            /\ UNCHANGED globalProcessing
       /\ \A p \in globalProcessing \ globalProcessing' :
            \/ \E h \in Handlers :
                 /\ cur[h].pid = p
                 /\ pc[h] \in {"checked", "sending"}
                 /\ pc'[h] # pc[h]
            \/ instanceCount' = 0]_vars

\* camB was dropped at the lock that camA holds while it delivers
DroppedAtHeldLock ==
    /\ last.kind = "lock"
    /\ last.cam = "camB"
    /\ last.pid \in globalProcessing
    /\ pc["h1"] = "sending"
    /\ cur["h1"].pid = last.pid

\* C28: no personId has a pending buffer and a cooldown record in force at
\* the same time, and no buffer timer callback skips its notification.
NoBufferInsideWindow ==
    [][/\ \A p \in PersonIds :
            ~(PendingHas(globalPendingNotifications', p)
                /\ Has(globalCooldowns', p)
                /\ now' - globalCooldowns'[p].timestamp < PERSON_COOLDOWN_MS)
       /\ last'.kind # "timer_skip"]_vars

\* a buffer is pending for a personId whose cooldown record has run out and
\* is still in the map
BufferBesideExpiredRecord ==
    \E p \in PersonIds :
        /\ PendingHas(globalPendingNotifications, p)
        /\ Has(globalCooldowns, p)
        /\ ~CooldownActive(globalCooldowns, p)

\* C29: the named branch never ends in its second look at the cooldown: a
\* decision that cancels a pending buffer writes the cooldown record of the
\* personId and dispatches the named notification.
CancelAlwaysSends ==
    [][/\ last'.kind # "dup"
       /\ (\E p \in PersonIds, h \in Handlers :
              /\ PendingHas(globalPendingNotifications, p)
              /\ ~PendingHas(globalPendingNotifications', p)
              /\ pc[h] = "checked"
              /\ cur[h].pid = p)
            => /\ last'.kind = "sent_named"
               /\ globalCooldowns'[last'.pid] = [timestamp |-> now, label |-> last'.label]
               /\ \E h \in Handlers : pc'[h] = "sending" /\ cur'[h].pid = last'.pid]_vars

\* an upgrade on camB cancelled the buffer while the face cooldown is written
CancelledAndSending ==
    /\ last.kind = "sent_named"
    /\ last.buffer
    /\ last.cam = "camB"
    /\ pc["h2"] = "sending"
    /\ FaceCooldownActive(last.label)
    /\ ~PendingHas(globalPendingNotifications, last.pid)

(* ---------------- properties of the crowded notifier ---------------- *)

\* the personIds whose entry leaves the pending map in the step
Removed == PendingIds(globalPendingNotifications) \ PendingIds(globalPendingNotifications')

\* the sweep deletes the entry of p: the map is over the limit and p is
\* among its oldest entries beyond the limit
EvictedBySweep(p) ==
    LET s == globalPendingNotifications
    IN /\ Len(s) > PENDING_LIMIT
       /\ Len(globalPendingNotifications') = PENDING_LIMIT
       /\ \E i \in 1..(Len(s) - PENDING_LIMIT) : s[i].id = p
       /\ last'.kind = None

\* a notification for p is dispatched in the step
NotifiedInStep(p) == last'.kind \in {"sent_generic", "sent_named"} /\ last'.pid = p

\* every buffer started before the clock last advanced is gone in the end
BuffersRunOut ==
    <>[](\A i \in 1..Len(globalPendingNotifications) :
            globalPendingNotifications[i].timer.at = now)

SweepTrimsOldest ==
    [][GlobalSweep =>
        LET s == globalPendingNotifications
            n == Len(s)
            oldest == {s[i].timer : i \in 1..(n - PENDING_LIMIT)}
        IN IF n > PENDING_LIMIT
           THEN /\ globalPendingNotifications' = SubSeq(s, n - PENDING_LIMIT + 1, n)
                /\ Len(globalPendingNotifications') = PENDING_LIMIT
                /\ oldest \subseteq timers
                /\ timers' = timers \ oldest
           ELSE UNCHANGED <<globalPendingNotifications, timers>>]_vars

\* the sweep has cut the map down to the limit: the oldest personId has
\* neither a buffer nor a record, and every entry left has its timer
TrimmedToLimit ==
    /\ Len(globalPendingNotifications) = PENDING_LIMIT
    /\ Head(globalPendingNotifications).id > 1
    /\ ~Has(globalCooldowns, 1)
    /\ TimersOf(timers, 1) = {}
    /\ timers = PendingTimers(globalPendingNotifications)

(* ---------------- the lock under fair scheduling ---------------- *)

\* the handlers that are between taking the lock of p and releasing it
HoldersOf(p) == {h \in Handlers : cur[h].pid = p /\ pc[h] \in {"checked", "sending"}}

MotionOnlyChangesNothing ==
    [][(entry'.kind # None /\ entry'.detectionId = NoDetectionId) =>
          /\ entry'.kind = "no_id"
          /\ UNCHANGED <<detectionLastProcessed, personDetections, faceDetections>>
          /\ UNCHANGED globalState]_entryVars

\* a motion-only event with a person in its list was dropped on a camera
\* whose throttle map holds an earlier detection and nothing else
MotionOnlyDropped ==
    /\ entry.kind = "no_id"
    /\ entry.cam = "camA"
    /\ DOMAIN detectionLastProcessed["camA"] = {"d1"}
    /\ personDetections = 1

(* ---------------- properties of the sweep ---------------- *)

\* what the checks would decide for every detection that could come now
Verdicts ==
    [p \in {Veteran} \cup Crowd, label \in {NoLabel} \cup Names |-> Verdict("camA", p, label)]

\* the sweep deletes only records older than the retention, none of them in
\* force, and leaves the other records as they are
RemovesOnlyOldRecords ==
    /\ \A k \in DOMAIN globalCooldowns \ DOMAIN globalCooldowns' :
          /\ now - globalCooldowns[k].timestamp > COOLDOWN_RETENTION_MS
          /\ ~CooldownActive(globalCooldowns, k)
    /\ \A k \in DOMAIN globalCooldowns' :
          Has(globalCooldowns, k) /\ globalCooldowns'[k] = globalCooldowns[k]
    /\ \A k \in DOMAIN globalFaceCooldowns \ DOMAIN globalFaceCooldowns' :
          /\ now - globalFaceCooldowns[k] > COOLDOWN_RETENTION_MS
          /\ ~FaceCooldownActive(k)
    /\ \A k \in DOMAIN globalFaceCooldowns' :
          Has(globalFaceCooldowns, k) /\ globalFaceCooldowns'[k] = globalFaceCooldowns[k]

\* C31 as claimed: the sweep deletes a cooldown record or a face cooldown
\* only when it is older than the retention, and after the sweep every
\* detection is decided as it would have been decided before it.
SweepNeverChangesOutcome ==
    [][GlobalSweep => (RemovesOnlyOldRecords /\ Verdicts' = Verdicts)]_vars

\* C31: the sweep deletes a cooldown record or a face cooldown only when it
\* is older than the retention, and after the sweep every detection of a
\* personId whose pending buffer the sweep did not delete is decided as it
\* would have been decided before it.
SweepKeepsOutcomeUnlessEvicted ==
    [][GlobalSweep =>
          /\ RemovesOnlyOldRecords
          /\ \A p \in {Veteran} \cup Crowd, label \in {NoLabel} \cup Names :
                (PendingHas(globalPendingNotifications', p)
                    = PendingHas(globalPendingNotifications, p))
                  => Verdicts'[p, label] = Verdicts[p, label]]_vars

\* the old record and the old face cooldown are swept, and a record written
\* after the clock advanced is in force
OldSweptFreshKept ==
    /\ ~Has(globalCooldowns, Veteran)
    /\ ~Has(globalFaceCooldowns, "Alice")
    /\ \E p \in Crowd : CooldownActive(globalCooldowns, p)
    /\ ticks = 1

(* ---------------- further properties of the ReID engine ---------------- *)

\* C32: constructing the mixin of a camera and putSetting of the tracking
\* window leave the cache of the shared engine empty: no embedding matches
\* any more, and a person detection that finds the cache empty is answered
\* as new.
WindowChangeForgetsEveryone ==
    [][/\ ((mixin' # mixin) \/ (\E c \in Cameras, seconds \in WindowChoices : PutSetting(c, seconds)))
            => /\ trackedPersons' = <<>>
               /\ \A e \in Embeddings : ~IsMatch(trackedPersons', e)
       /\ (trackedPersons = <<>> /\ answer'.kind \in {"match", "new"})
            => answer'.isNew]_reidVars

\* the identity that was just handed out as new is gone from the cache, which
\* is empty, with no time passed: the mixin of the other camera was
\* constructed or a window was set
ForgottenAfterReset ==
    /\ issued.pid # NoKey
    /\ nextId = 2
    /\ issued.at = clock
    /\ trackedPersons = <<>>
    /\ \A c \in Cameras : mixin[c]

\* C33: of two person detections that are suspended in extractEmbedding at
\* the same time over an empty cache and whose embeddings are at least as
\* similar as the threshold, the one resumed first is answered as new and the
\* one resumed second, while that identity is live, is answered isNew = false
\* with the same personId, and no second identity is inserted.
ConcurrentPairSharesIdentity ==
    [][(/\ answer.kind = "new"
        /\ answer.evicted = NoKey
        /\ Len(trackedPersons) = 1
        /\ trackedPersons[1].key = answer.personId
        /\ ~Stale(trackedPersons[1])
        /\ answer'.kind \in {"match", "new"}
        /\ answer'.cam # answer.cam
        /\ cosineSimilarity(answer.emb, answer'.emb) >= similarityThreshold)
          => /\ answer.isNew
             /\ answer'.isNew = FALSE
             /\ answer'.personId = answer.personId
             /\ Len(trackedPersons') = 1]_reidVars

\* the first of two suspended calls has inserted its identity into the empty
\* cache and the call of the other camera is still suspended
InsertedWhileOtherSuspended ==
    /\ answer.kind = "new"
    /\ nextId = 2
    /\ answer.evicted = NoKey
    /\ Len(trackedPersons) = 1
    /\ \E c \in Cameras : c # answer.cam /\ mpc[c] = "extract"

\* C34: the personId given to a new identity is the key of no identity the
\* cache holds at that moment, and every identity the cache held is still
\* there after the insertion unless it is the one the full cache evicted.
NewIdIsNoKeyOfTheCache ==
    [][answer'.kind = "new" =>
          /\ answer'.personId \notin Keys(trackedPersons)
          /\ \A i \in 1..Len(trackedPersons) :
                \/ trackedPersons[i].key = answer'.evicted
                \/ \E j \in 1..Len(trackedPersons') : trackedPersons'[j] = trackedPersons[i]]_reidVars

\* the places of the live entries of the cache
Live(cache) == {i \in 1..Len(cache) : ~Stale(cache[i])}

\* the entry at place best is live, no live entry is more similar to e, and
\* of the live entries as similar as it none comes earlier in the scan, which
\* runs from the last place of the cache to the first
FirstMaximum(cache, e, best) ==
    /\ best \in Live(cache)
    /\ \A j \in Live(cache) :
          /\ cosineSimilarity(e, cache[j].value.embedding)
                <= cosineSimilarity(e, cache[best].value.embedding)
          /\ cosineSimilarity(e, cache[j].value.embedding)
                = cosineSimilarity(e, cache[best].value.embedding) => j <= best

\* C35 as claimed: whenever the cache has a live entry, findBestMatch returns
\* the live entry with the greatest similarity to the query, the first of the
\* scan among equals.
BestMatchIsFirstMaximum ==
    \A e \in Embeddings :
        Live(trackedPersons) # {} => FirstMaximum(trackedPersons, e, findBestMatch(trackedPersons, e))

\* C35: the scan of a person detection returns the live entry with the
\* greatest similarity to the embedding, the first of the scan among equals,
\* when that similarity is above 0, and returns nothing when no live entry
\* has a similarity above 0; a detection that is matched gets the personId
\* of the entry the scan returned.
BestMatchIsFirstPositiveMaximum ==
    [][answer'.kind \in {"match", "new"} =>
          LET best == findBestMatch(trackedPersons, answer'.emb) IN
          /\ IF \E j \in Live(trackedPersons) :
                    cosineSimilarity(answer'.emb, trackedPersons[j].value.embedding) > 0
             THEN FirstMaximum(trackedPersons, answer'.emb, best)
             ELSE best = 0
          /\ answer'.kind = "match" => answer'.personId = trackedPersons[best].key]_reidVars

\* a detection was matched to the more recently used of two live identities
\* that are equally similar to its embedding: the other one was last seen
\* before the matched one was inserted
MatchedFirstOfEquals ==
    /\ answer.kind = "match"
    /\ Len(trackedPersons) = 2
    /\ Live(trackedPersons) = {1, 2}
    /\ trackedPersons[2].key = answer.personId
    /\ trackedPersons[1].value.lastSeen < trackedPersons[2].value.firstSeen
    /\ cosineSimilarity(answer.emb, trackedPersons[1].value.embedding)
          = cosineSimilarity(answer.emb, trackedPersons[2].value.embedding)

(* ---------------- properties of the listener registration ---------------- *)

\* C36: the camera device never holds more than one registration of the
\* mixin, and once no listen or removeListener call is outstanding it holds
\* none for a mixin that is disabled or released.
AtMostOneListener ==
    /\ Cardinality(deviceListeners) <= 1
    /\ (/\ listening = {}
        /\ removing = {}
        /\ (~enabled \/ mixinState = "released")) => deviceListeners = {}

(* ---------------- properties of the lifecycle ---------------- *)

\* the mixins that are constructed and not released
LiveMixins == {c \in Cameras : listener[c]}

\* C37: with release called only on a live mixin, instanceCount is the
\* number of live mixins, the cleanup interval and the stats interval are set
\* exactly when it is above 0, a release that leaves a mixin alive changes
\* none of the shared maps and timers, and the release of the last mixin
\* leaves them empty.
LifecycleCounted ==
    [][/\ instanceCount' = Cardinality(LiveMixins')
       /\ globalCleanupInterval' = (instanceCount' > 0)
       /\ statsInterval' = (instanceCount' > 0)
       /\ (\E c \in Cameras : listener[c] /\ ~listener'[c]) =>
            IF instanceCount' = 0
            THEN /\ globalCooldowns' = EmptyMap
                 /\ globalFaceCooldowns' = EmptyMap
                 /\ globalPendingNotifications' = <<>>
                 /\ globalProcessing' = {}
                 /\ timers' = {}
            ELSE UNCHANGED globalState]_vars

\* the mixin of camera B was released while its handler was waiting for a
\* delivery; the mixin of camera A lives on and the shared maps still hold
\* the record and the lock of that handler
ReleasedBesideLiveMixin ==
    /\ ~listener["camB"]
    /\ pc["h2"] = "sending"
    /\ instanceCount = 1
    /\ globalCooldowns # EmptyMap
    /\ globalProcessing # {}
    /\ globalCleanupInterval
    /\ statsInterval

(* ---------------- further properties of the callback entry ---------------- *)

\* the returns of the callback that lie behind the throttle
PastThrottle == {"no_detections", "no_person", "reid"}

\* C38: an event that gets past the throttle of a camera comes at least
\* THROTTLE_MS after the timestamp its detectionId has in the map of that
\* camera and becomes the new timestamp; a timestamp is forgotten only when
\* it is older than that; an event with a detectionId that comes sooner is
\* dropped as throttled, and a throttled event leaves the map and the
\* detection counters alone and does not go on to the ReID call.
ThrottleSpacing ==
    [][/\ entry'.kind \in PastThrottle =>
            /\ Has(detectionLastProcessed[entry'.cam], entry'.detectionId) =>
                  entryNow' - detectionLastProcessed[entry'.cam][entry'.detectionId] >= THROTTLE_MS
            /\ detectionLastProcessed'[entry'.cam][entry'.detectionId] = entryNow'
       /\ \A c \in Cameras :
            \A id \in DOMAIN detectionLastProcessed[c] \ DOMAIN detectionLastProcessed'[c] :
                entryNow - detectionLastProcessed[c][id] >= THROTTLE_MS
       /\ (/\ entry'.kind \notin {None, "no_id"}
           /\ Has(detectionLastProcessed[entry'.cam], entry'.detectionId)
           /\ entryNow' - detectionLastProcessed[entry'.cam][entry'.detectionId] < THROTTLE_MS)
             => entry'.kind = "throttled"
       /\ entry'.kind = "throttled" =>
            UNCHANGED <<detectionLastProcessed, personDetections, faceDetections>>]_entryVars

\* an event was dropped half a second after an event with its detectionId
\* got past the throttle, and the timestamp is still that of the earlier one
DroppedInsideThrottle ==
    /\ entry.kind = "throttled"
    /\ entryNow - detectionLastProcessed[entry.cam][entry.detectionId] = THROTTLE_MS \div 2

(* ---------------- properties of the notification counters ---------------- *)

\* C39: whenever the thread is free, so that the interval can run logStats,
\* the total it reports, the sum of the generic, the named and the upgrade
\* counter, is the number of sendNotification calls made so far.
TotalCountsDispatches == running = None => totalNotifications = dispatched

====
